----------------------------- MODULE PagesProofs -----------------------------
(***************************************************************************)
(* Proofs about Pages and Analyze for all projects, lists, writers, times, *)
(* formats of a fraction, limits and numbers of rows: that a reader of     *)
(* pages is shown every row that was there, each once, in the order of the *)
(* store and, of a session in Postgres, as of one moment; and that the     *)
(* answer to an analysis stays true of the store.                          *)
(***************************************************************************)
EXTENDS Analyze, FiniteSetTheorems, TLAPS

(***************************************************************************)
(* The order of times                                                      *)
(***************************************************************************)

\* A set of numbers has a least one, however many there are.
LEMMA LeastOf ==
    ASSUME NEW S, S \subseteq Nat, S # {}
    PROVE  \E m \in S : \A y \in S : m <= y
<1>1. PICK n \in S : n \in Nat
    OBVIOUS
<1> DEFINE T == {0 .. x : x \in {y \in S : y <= n}}
<1>2. IsWellFoundedOn(StrictSubsetOrdering(0 .. n), FiniteSubsetsOf(0 .. n))
    BY FS_StrictSubsetOrderingWellFounded
<1>3. T \subseteq FiniteSubsetsOf(0 .. n) /\ T # {}
    <2>1. \A x \in S : x <= n => IsFiniteSet(0 .. x) /\ 0 .. x \subseteq 0 .. n
        BY <1>1, FS_Interval
    <2>2. n <= n
        BY <1>1
    <2> QED
        BY <1>1, <2>1, <2>2 DEF FiniteSubsetsOf
<1>4. PICK m \in T : \A t \in T : <<t, m>> \notin StrictSubsetOrdering(0 .. n)
    <2> HIDE DEF T
    <2> QED
        BY <1>2, <1>3, WFMin
<1>5. PICK x \in S : x <= n /\ m = 0 .. x
    OBVIOUS
<1>6. ASSUME NEW y \in S, y < x
      PROVE  FALSE
    <2>1. y <= n /\ x \in 0 .. x /\ x \notin 0 .. y /\ 0 .. y \subseteq 0 .. x
        BY <1>1, <1>5, <1>6
    <2>2. 0 .. y \in T /\ 0 .. x \subseteq 0 .. n /\ 0 .. y # 0 .. x
        BY <1>1, <1>5, <2>1
    <2> QED
        BY <1>4, <1>5, <2>1, <2>2 DEF StrictSubsetOrdering
<1> QED
    BY <1>6

\* The text of a time: a number, digits, and the mark at the end.
IsText(a) ==
    /\ a \in Seq(Nat) /\ Len(a) >= 2
    /\ a[Len(a)] = 10 /\ \A i \in 2 .. Len(a) - 1 : a[i] \in 0 .. 9

\* The part of a time that is written as a fraction.
Part(t) == 1 + (t % Len(Fractions))

\* How a time is written, place by place.
LEMMA TextOfTime ==
    ASSUME NEW t \in Nat
    PROVE  LET f == Fractions[Part(t)] IN
           /\ Part(t) \in DOMAIN Fractions /\ f \in Seq(0 .. 9) /\ IsText(FormatTime(t))
           /\ Len(FormatTime(t)) = Len(f) + 2
           /\ FormatTime(t)[1] = t \div Len(Fractions)
           /\ \A i \in 1 .. Len(f) : FormatTime(t)[i + 1] = f[i]
<1> DEFINE n == Len(Fractions)
           f == Fractions[Part(t)]
           a == FormatTime(t)
<1>1. n \in Nat /\ n >= 1 /\ DOMAIN Fractions = 1 .. n
    BY PagesConstants
<1>2. t % n \in 0 .. n - 1 /\ t \div n \in Nat
    BY <1>1
<1>3. Part(t) \in 1 .. n
    BY <1>1, <1>2 DEF Part
<1>4. f \in Seq(0 .. 9)
    BY <1>1, <1>3, PagesConstants
<1>5. a = (<<t \div n>> \o f) \o <<10>>
    BY DEF FormatTime, Part
<1> HIDE DEF n, f, a
<1> DEFINE b == <<t \div n>> \o f
<1>6. /\ b \in Seq(Nat) /\ Len(b) = Len(f) + 1 /\ b[1] = t \div n
      /\ \A i \in 1 .. Len(f) : b[i + 1] = f[i]
    BY <1>2, <1>4
<1> HIDE DEF b
<1>7. /\ a \in Seq(Nat) /\ Len(a) = Len(b) + 1 /\ a[Len(a)] = 10
      /\ \A i \in 1 .. Len(b) : a[i] = b[i]
    BY <1>5, <1>6 DEF b
<1>8. Len(f) \in Nat /\ \A i \in 1 .. Len(f) : f[i] \in 0 .. 9
    BY <1>4
<1>9. /\ Len(a) = Len(f) + 2 /\ a[1] = t \div n
      /\ \A i \in 1 .. Len(f) : a[i + 1] = f[i]
    BY <1>6, <1>7, <1>8, SMTT(30)
<1>10. \A i \in 2 .. Len(a) - 1 : a[i] \in 0 .. 9
    <2> SUFFICES ASSUME NEW i \in 2 .. Len(a) - 1 PROVE a[i] \in 0 .. 9
        OBVIOUS
    <2>1. i - 1 \in 1 .. Len(f) /\ i = (i - 1) + 1
        BY <1>8, <1>9
    <2> QED
        BY <1>8, <1>9, <2>1
<1> QED
    BY <1>1, <1>3, <1>4, <1>7, <1>8, <1>9, <1>10 DEF IsText, n, f, a

\* Two times are not written alike: no two parts of a second are.
LEMMA TextsDiffer ==
    ASSUME NEW s \in Nat, NEW t \in Nat, FormatTime(s) = FormatTime(t)
    PROVE  s = t
<1> DEFINE n == Len(Fractions)
           f == Fractions[Part(s)]
           g == Fractions[Part(t)]
<1>1. n \in Nat /\ n >= 1
    BY PagesConstants
<1>2. s \div n = t \div n /\ f \in Seq(0 .. 9) /\ g \in Seq(0 .. 9)
    BY TextOfTime
<1>3. Len(f) = Len(g)
    <2>1. Len(f) + 2 = Len(g) + 2
        BY TextOfTime
    <2> HIDE DEF f, g
    <2>2. Len(f) \in Nat /\ Len(g) \in Nat
        BY <1>2
    <2> QED
        BY <2>1, <2>2
<1>4. \A i \in 1 .. Len(f) : f[i] = g[i]
    BY <1>3, TextOfTime
<1>5. f = g
    <2> HIDE DEF f, g
    <2> QED
        BY <1>2, <1>3, <1>4
<1>6. Part(s) = Part(t)
    BY <1>5, TextOfTime, PagesConstants
<1>7. s % n \in Int /\ t % n \in Int /\ s % n = t % n
    <2>1. s % n \in 0 .. n - 1 /\ t % n \in 0 .. n - 1
        BY <1>1
    <2> QED
        BY <1>6, <2>1 DEF Part
<1> HIDE DEF n
<1>8. /\ s = n * (s \div n) + (s % n) /\ n * (s \div n) \in Int
      /\ t = n * (t \div n) + (t % n)
    BY <1>1
<1>9. n * (s \div n) = n * (t \div n)
    BY <1>2 DEF n
<1> QED
    <2> DEFINE q == s \div n
               p == t \div n
    <2>1. s = n * q + (s % n) /\ t = n * p + (s % n) /\ n * q = n * p
        BY <1>7, <1>8, <1>9
    <2> HIDE DEF q, p
    <2> QED
        BY <2>1

\* Of two texts that are not the same one comes first: neither goes on where
\* the other ends.
LEMMA TextsCompare ==
    ASSUME NEW a, NEW b, IsText(a), IsText(b), a # b
    PROVE  TextBefore(a, b) \/ TextBefore(b, a)
<1> DEFINE D == {i \in DOMAIN a \cap DOMAIN b : a[i] # b[i]}
<1>1. /\ a \in Seq(Nat) /\ Len(a) \in Nat /\ DOMAIN a = 1 .. Len(a)
      /\ b \in Seq(Nat) /\ Len(b) \in Nat /\ DOMAIN b = 1 .. Len(b)
    BY DEF IsText
<1>2. D # {}
    <2> SUFFICES ASSUME D = {} PROVE FALSE
        OBVIOUS
    <2>1. \A i \in DOMAIN a \cap DOMAIN b : a[i] = b[i]
        OBVIOUS
    <2>2. CASE Len(a) = Len(b)
        BY <1>1, <2>1, <2>2
    <2>3. CASE Len(a) < Len(b)
        <3>1. Len(a) \in 2 .. Len(b) - 1 /\ Len(a) \in DOMAIN a \cap DOMAIN b
            BY <1>1, <2>3 DEF IsText
        <3>2. a[Len(a)] = 10 /\ b[Len(a)] \in 0 .. 9
            BY <3>1 DEF IsText
        <3> QED
            BY <2>1, <3>1, <3>2
    <2>4. CASE Len(b) < Len(a)
        <3>1. Len(b) \in 2 .. Len(a) - 1 /\ Len(b) \in DOMAIN a \cap DOMAIN b
            BY <1>1, <2>4 DEF IsText
        <3>2. b[Len(b)] = 10 /\ a[Len(b)] \in 0 .. 9
            BY <3>1 DEF IsText
        <3> QED
            BY <2>1, <3>1, <3>2
    <2> HIDE DEF D
    <2>5. \A x, y \in Nat : x = y \/ x < y \/ y < x
        OBVIOUS
    <2> QED
        BY <1>1, <2>2, <2>3, <2>4, <2>5
<1>3. PICK i \in D : \A j \in D : i <= j
    <2>1. D \subseteq Nat
        BY <1>1
    <2> HIDE DEF D
    <2> QED
        BY <1>2, <2>1, LeastOf
<1>4. \A j \in 1 .. i - 1 : a[j] = b[j]
    <2> SUFFICES ASSUME NEW j \in 1 .. i - 1 PROVE a[j] = b[j]
        OBVIOUS
    <2>1. i \in 1 .. Len(a) /\ i \in 1 .. Len(b)
        BY <1>1, <1>3
    <2>2. j \in DOMAIN a \cap DOMAIN b /\ ~ (i <= j)
        BY <1>1, <2>1
    <2> QED
        BY <1>3, <2>2
<1>5. a[i] \in Nat /\ b[i] \in Nat /\ a[i] # b[i] /\ i \in DOMAIN a \cap DOMAIN b
    BY <1>1, <1>3
<1> QED
    BY <1>4, <1>5 DEF TextBefore

\* No text comes before itself, and what comes before what comes before a
\* third comes before that.
LEMMA TextsInOrder ==
    ASSUME NEW a, NEW b, NEW c, IsText(a), IsText(b), IsText(c)
    PROVE  /\ ~TextBefore(a, a)
           /\ TextBefore(a, b) /\ TextBefore(b, c) => TextBefore(a, c)
<1>1. /\ a \in Seq(Nat) /\ Len(a) \in Nat /\ DOMAIN a = 1 .. Len(a)
      /\ b \in Seq(Nat) /\ Len(b) \in Nat /\ DOMAIN b = 1 .. Len(b)
      /\ c \in Seq(Nat) /\ Len(c) \in Nat /\ DOMAIN c = 1 .. Len(c)
    BY DEF IsText
<1>2. \A i \in DOMAIN a : a[i] \in Nat
    BY <1>1
<1>3. ~TextBefore(a, a)
    BY <1>2 DEF TextBefore
<1>4. ASSUME TextBefore(a, b), TextBefore(b, c)
      PROVE  TextBefore(a, c)
    <2>1. PICK i \in DOMAIN a \cap DOMAIN b : a[i] < b[i] /\ \A j \in 1 .. i - 1 : a[j] = b[j]
        BY <1>4 DEF TextBefore
    <2>2. PICK k \in DOMAIN b \cap DOMAIN c : b[k] < c[k] /\ \A j \in 1 .. k - 1 : b[j] = c[j]
        BY <1>4 DEF TextBefore
    <2>3. i \in 1 .. Len(a) /\ i \in 1 .. Len(b) /\ k \in 1 .. Len(b) /\ k \in 1 .. Len(c)
        BY <1>1, <2>1, <2>2
    <2>4. CASE i < k
        <3>1. i \in 1 .. k - 1 /\ i \in DOMAIN a \cap DOMAIN c
            BY <1>1, <2>3, <2>4
        <3>2. a[i] < c[i]
            BY <2>1, <2>2, <3>1
        <3>3. \A j \in 1 .. i - 1 : j \in 1 .. k - 1
            BY <2>3, <2>4
        <3>4. \A j \in 1 .. i - 1 : a[j] = c[j]
            BY <2>1, <2>2, <3>3
        <3> QED
            BY <3>1, <3>2, <3>4 DEF TextBefore
    <2>5. CASE k < i
        <3>1. k \in 1 .. i - 1 /\ k \in DOMAIN a \cap DOMAIN c
            BY <1>1, <2>3, <2>5
        <3>2. a[k] < c[k]
            BY <2>1, <2>2, <3>1
        <3>3. \A j \in 1 .. k - 1 : j \in 1 .. i - 1
            BY <2>3, <2>5
        <3>4. \A j \in 1 .. k - 1 : a[j] = c[j]
            BY <2>1, <2>2, <3>3
        <3> QED
            BY <3>1, <3>2, <3>4 DEF TextBefore
    <2>6. CASE i = k
        <3>1. a[i] \in Nat /\ b[i] \in Nat /\ c[i] \in Nat /\ i \in DOMAIN a \cap DOMAIN c
            BY <1>1, <2>3, <2>6
        <3>2. a[i] < c[i]
            BY <2>1, <2>2, <2>6, <3>1
        <3>3. \A j \in 1 .. i - 1 : a[j] = c[j]
            BY <2>1, <2>2, <2>6
        <3> QED
            BY <3>1, <3>2, <3>3 DEF TextBefore
    <2> QED
        BY <2>3, <2>4, <2>5, <2>6
<1> QED
    BY <1>3, <1>4

\* However a store keeps its times, they are in an order.
LEMMA TimesInOrder ==
    ASSUME NEW r \in Nat, NEW s \in Nat, NEW t \in Nat
    PROVE  /\ ~Earlier(r, r)
           /\ Earlier(r, s) /\ Earlier(s, t) => Earlier(r, t)
           /\ r = s \/ Earlier(r, s) \/ Earlier(s, r)
<1>1. CASE store = "memory"
    BY <1>1 DEF Earlier
<1>2. CASE store # "memory"
    <2>1. IsText(FormatTime(r)) /\ IsText(FormatTime(s)) /\ IsText(FormatTime(t))
        BY TextOfTime
    <2>2. r # s => FormatTime(r) # FormatTime(s)
        BY TextsDiffer
    <2> QED
        BY <1>2, <2>1, <2>2, TextsCompare, TextsInOrder DEF Earlier
<1> QED
    BY <1>1, <1>2

(***************************************************************************)
(* The order of rows                                                       *)
(***************************************************************************)

AnyPath == Projects \X {None} \cup Collections

\* What is stored, without the bounds.
StoredRows == [path : Paths, at : Nat, seq : {None, 1, 2}, id : Nat, stamp : Nat]

\* The place of a row, or what a token says of it.
Places == [v : Nat, path : AnyPath, at : Nat, seq : {None, 1, 2}, id : Nat, wm : Nat \cup {None}]

Lists  == {"sessions", "events", "samples"}
Stores == {"memory", "sqlite", "postgres"}

\* Numbers compare, and no number comes before them.
LEMMA NumbersInOrder ==
    ASSUME NEW s \in {None, 1, 2}, NEW t \in {None, 1, 2}
    PROVE  /\ NullableSeqValue(s) \in Int
           /\ NullableSeqValue(s) = NullableSeqValue(t) => s = t
BY DEF NullableSeqValue

\* The rows of a list are in an order, whichever list it is: of two of them
\* one is before the other, as they have different ids.
LEMMA RowsInOrder ==
    ASSUME list \in Lists, NEW x \in StoredRows, NEW y \in StoredRows, NEW z \in StoredRows
    PROVE  /\ ~Less(x, x)
           /\ Less(x, y) /\ Less(y, z) => Less(x, z)
           /\ x.id # y.id => Less(x, y) \/ Less(y, x)
<1>1. \A r \in {x, y, z} : r.at \in Nat /\ r.id \in Nat /\ r.seq \in {None, 1, 2}
    BY DEF StoredRows
<1>2. \A r, s, t \in Nat : /\ ~Earlier(r, r)
                           /\ Earlier(r, s) /\ Earlier(s, t) => Earlier(r, t)
                           /\ r = s \/ Earlier(r, s) \/ Earlier(s, r)
    BY TimesInOrder
<1>3. CASE list = "events"
    <2>1. \A r, s : Less(r, s) <=> EventLess(r, s)
        BY <1>3 DEF Less
    <2>2. \A r, s \in {x, y, z} : /\ NullableSeqValue(r.seq) \in Int
                                  /\ NullableSeqValue(r.seq) = NullableSeqValue(s.seq) => r.seq = s.seq
        BY <1>1, NumbersInOrder
    <2>3. ~EventLess(x, x)
        BY <1>1, <1>2, <2>2 DEF EventLess
    <2>4. EventLess(x, y) /\ EventLess(y, z) => EventLess(x, z)
        BY <1>1, <1>2, <2>2 DEF EventLess
    <2>5. x.id # y.id => EventLess(x, y) \/ EventLess(y, x)
        BY <1>1, <1>2, <2>2 DEF EventLess
    <2> QED
        BY <2>1, <2>3, <2>4, <2>5
<1>4. CASE list = "sessions"
    <2>1. \A r, s : Less(r, s) <=> SessionLess(r, s)
        BY <1>4 DEF Less
    <2>2. ~SessionLess(x, x) /\ (SessionLess(x, y) /\ SessionLess(y, z) => SessionLess(x, z))
        BY <1>1, <1>2 DEF SessionLess
    <2>3. x.id # y.id => SessionLess(x, y) \/ SessionLess(y, x)
        BY <1>1, <1>2 DEF SessionLess
    <2> QED
        BY <2>1, <2>2, <2>3
<1>5. CASE list = "samples"
    <2>1. \A r, s : Less(r, s) <=> SampleLess(r, s)
        BY <1>5 DEF Less
    <2>2. ~SampleLess(x, x) /\ (SampleLess(x, y) /\ SampleLess(y, z) => SampleLess(x, z))
        BY <1>1, <1>2 DEF SampleLess
    <2>3. x.id # y.id => SampleLess(x, y) \/ SampleLess(y, x)
        BY <1>1, <1>2 DEF SampleLess
    <2> QED
        BY <2>1, <2>2, <2>3
<1> QED
    BY <1>3, <1>4, <1>5 DEF Lists

\* What passes a token is what the order has after the row whose place it
\* holds: the queries and the order agree.
LEMMA PassesIsAfter ==
    ASSUME list \in Lists, NEW x \in StoredRows, NEW l \in StoredRows,
           NEW t, t # None, t.at = l.at, t.seq = l.seq, t.id = l.id
    PROVE  Passes(x, t) <=> Less(l, x)
<1>1. \A r \in {x, l} : r.at \in Nat /\ r.id \in Nat /\ r.seq \in {None, 1, 2}
    BY DEF StoredRows
<1>2. CASE list = "events"
    <2>1. (Passes(x, t) <=> EventPasses(x, t)) /\ (Less(l, x) <=> EventLess(l, x))
        BY <1>2 DEF Passes, Less
    <2>2. NullableSeqValue(x.seq) \in Int /\ NullableSeqValue(l.seq) \in Int
        BY <1>1, NumbersInOrder
    <2>3. EventPasses(x, t) <=> EventLess(l, x)
        BY <1>1, <2>2 DEF EventPasses, EventLess
    <2> QED
        BY <2>1, <2>3
<1>3. CASE list = "sessions"
    <2>1. (Passes(x, t) <=> SessionPasses(x, t)) /\ (Less(l, x) <=> SessionLess(l, x))
        BY <1>3 DEF Passes, Less
    <2>2. SessionPasses(x, t) <=> SessionLess(l, x)
        BY <1>1 DEF SessionPasses, SessionLess
    <2> QED
        BY <2>1, <2>2
<1>4. CASE list = "samples"
    <2>1. (Passes(x, t) <=> SamplePasses(x, t)) /\ (Less(l, x) <=> SampleLess(l, x))
        BY <1>4 DEF Passes, Less
    <2>2. SamplePasses(x, t) <=> SampleLess(l, x)
        BY <1>1 DEF SamplePasses, SampleLess
    <2> QED
        BY <2>1, <2>2
<1> QED
    BY <1>2, <1>3, <1>4 DEF Lists

\* Rows that may be put in order: finitely many, no two of one id.
Orderable(S) ==
    /\ S \subseteq StoredRows /\ IsFiniteSet(S)
    /\ \A x, y \in S : x.id = y.id => x = y

\* Put in order they are all there, each once, the lesser before the greater.
LEMMA OrderedRows ==
    ASSUME list \in Lists, NEW S, Orderable(S)
    PROVE  /\ Ordered(S) \in Seq(S) /\ Len(Ordered(S)) = Cardinality(S)
           /\ \A x \in S : \E i \in DOMAIN Ordered(S) : Ordered(S)[i] = x
           /\ \A i, j \in DOMAIN Ordered(S) : i < j => Less(Ordered(S)[i], Ordered(S)[j])
<1> DEFINE n == Cardinality(S)
           B(x) == {y \in S : Less(y, x)}
           place == [x \in S |-> Cardinality(B(x)) + 1]
           o == Ordered(S)
<1>1. n \in Nat
    BY FS_CardinalityType DEF Orderable
<1>2. \A x \in S : IsFiniteSet(B(x)) /\ Cardinality(B(x)) \in Nat /\ x \notin B(x)
    <2> SUFFICES ASSUME NEW x \in S PROVE IsFiniteSet(B(x)) /\ Cardinality(B(x)) \in Nat /\ x \notin B(x)
        OBVIOUS
    <2>1. IsFiniteSet(B(x))
        BY FS_Subset DEF Orderable
    <2>2. ~Less(x, x)
        BY RowsInOrder DEF Orderable
    <2> QED
        BY <2>1, <2>2, FS_CardinalityType
\* a row before another one has fewer rows before it
<1>3. ASSUME NEW x \in S, NEW y \in S, Less(x, y)
      PROVE  Cardinality(B(x)) < Cardinality(B(y))
    <2>1. B(x) \subseteq B(y)
        BY <1>3, RowsInOrder DEF Orderable
    <2>2. x \in B(y) /\ x \notin B(x)
        BY <1>2, <1>3
    <2>3. Cardinality(B(x)) <= Cardinality(B(y)) /\ Cardinality(B(x)) # Cardinality(B(y))
        <3> HIDE DEF B
        <3> QED
            BY <1>2, <2>1, <2>2, FS_Subset
    <2> QED
        BY <1>2, <2>3
<1>4. \A x \in S : place[x] \in 1 .. n
    <2> SUFFICES ASSUME NEW x \in S PROVE Cardinality(B(x)) + 1 \in 1 .. n
        OBVIOUS
    <2>1. B(x) \subseteq S /\ x \in S /\ x \notin B(x)
        BY <1>2
    <2>2. Cardinality(B(x)) <= n /\ Cardinality(B(x)) # n
        <3> HIDE DEF B
        <3> QED
            BY <2>1, FS_Subset DEF Orderable
    <2> QED
        BY <1>1, <1>2, <2>2
<1>5. \A x, y \in S : place[x] = place[y] => x = y
    <2> SUFFICES ASSUME NEW x \in S, NEW y \in S, x # y PROVE place[x] # place[y]
        OBVIOUS
    <2>1. Less(x, y) \/ Less(y, x)
        BY RowsInOrder DEF Orderable
    <2> HIDE DEF B
    <2>2. Cardinality(B(x)) # Cardinality(B(y))
        BY <1>2, <1>3, <2>1
    <2> QED
        BY <1>2, <2>2
<1>6. place \in Surjection(S, 1 .. n)
    <2>1. place \in [S -> 1 .. n]
        BY <1>4
    <2>2. IsFiniteSet(1 .. n) /\ Cardinality(1 .. n) = n
        BY <1>1, FS_Interval
    <2> HIDE DEF place, n
    <2>3. place \in Injection(S, 1 .. n)
        BY <1>5, <2>1 DEF Injection, IsInjective
    <2>4. Cardinality(S) = Cardinality(1 .. n)
        BY <2>2 DEF n
    <2> QED
        BY <2>2, <2>3, <2>4, FS_Injection
<1>7. \A i \in 1 .. n : \E x \in S : place[x] = i
    <2> HIDE DEF place, n
    <2> QED
        BY <1>6 DEF Surjection
<1>8. \A i \in 1 .. n : o[i] \in S /\ place[o[i]] = i
    <2> SUFFICES ASSUME NEW i \in 1 .. n PROVE o[i] \in S /\ place[o[i]] = i
        OBVIOUS
    <2>1. PICK x \in S : place[x] = i
        BY <1>7
    <2>2. \A z \in S : place[z] = i <=> Cardinality(B(z)) = i - 1
        BY <1>1, <1>2
    <2>3. o[i] = CHOOSE z \in S : Cardinality(B(z)) = i - 1
        BY DEF Ordered
    <2> HIDE DEF B, o, place, n
    <2>4. o[i] \in S /\ Cardinality(B(o[i])) = i - 1
        BY <2>1, <2>2, <2>3
    <2> QED
        BY <2>2, <2>4
<1>9. DOMAIN o = 1 .. n /\ o = [i \in 1 .. n |-> o[i]]
    <2> DEFINE E(i) == CHOOSE x \in S : Cardinality({y \in S : Less(y, x)}) = i - 1
    <2>1. o = [i \in 1 .. n |-> E(i)]
        BY DEF Ordered
    <2> HIDE DEF E, o, n
    <2> QED
        BY <2>1
<1> HIDE DEF o, place, n
<1>10. o \in Seq(S) /\ Len(o) = n
    <2>1. o \in [1 .. n -> S]
        BY <1>8, <1>9
    <2> QED
        BY <1>1, <2>1
<1>11. \A x \in S : \E i \in DOMAIN o : o[i] = x
    <2> SUFFICES ASSUME NEW x \in S PROVE \E i \in DOMAIN o : o[i] = x
        OBVIOUS
    <2>1. place[x] \in 1 .. n
        BY <1>4
    <2>2. o[place[x]] \in S /\ place[o[place[x]]] = place[x]
        BY <1>8, <2>1
    <2>3. o[place[x]] = x
        BY <1>5, <2>2
    <2> QED
        BY <1>9, <2>1, <2>3
<1>12. \A i, j \in DOMAIN o : i < j => Less(o[i], o[j])
    <2> SUFFICES ASSUME NEW i \in 1 .. n, NEW j \in 1 .. n, i < j PROVE Less(o[i], o[j])
        BY <1>9
    <2>1. o[i] \in S /\ place[o[i]] = i /\ o[j] \in S /\ place[o[j]] = j
        BY <1>8
    <2>2. o[i] # o[j]
        BY <1>1, <2>1
    <2>3. Less(o[i], o[j]) \/ Less(o[j], o[i])
        BY <2>1, <2>2, RowsInOrder DEF Orderable
    <2>4. ASSUME Less(o[j], o[i]) PROVE FALSE
        <3>1. Cardinality(B(o[j])) < Cardinality(B(o[i]))
            BY <1>3, <2>1, <2>4
        <3>2. i = Cardinality(B(o[i])) + 1 /\ j = Cardinality(B(o[j])) + 1
            BY <2>1 DEF place
        <3> HIDE DEF B
        <3> QED
            BY <1>2, <2>1, <3>1, <3>2
    <2> QED
        BY <2>3, <2>4
<1> QED
    BY <1>10, <1>11, <1>12 DEF o, n

\* A page has the first of the rows, at least one if there are any, and says
\* whether there are more: these come after its last.
LEMMA PageOfRows ==
    ASSUME list \in Lists, NEW S, Orderable(S), NEW limit \in Nat, limit >= 1
    PROVE  LET page == FirstRows(S, limit) IN
           /\ page.items \in Seq(S) /\ page.more \in BOOLEAN
           /\ \A i, j \in DOMAIN page.items : i < j => Less(page.items[i], page.items[j])
           /\ ~page.more => \A x \in S : \E i \in DOMAIN page.items : page.items[i] = x
           /\ page.more =>
                 /\ Len(page.items) >= 1
                 /\ \A x \in S : \/ \E i \in DOMAIN page.items : page.items[i] = x
                                 \/ Less(page.items[Len(page.items)], x)
<1> DEFINE o == Ordered(S)
           page == FirstRows(S, limit)
<1>1. /\ o \in Seq(S) /\ Len(o) \in Nat /\ DOMAIN o = 1 .. Len(o)
      /\ \A x \in S : \E i \in DOMAIN o : o[i] = x
      /\ \A i, j \in DOMAIN o : i < j => Less(o[i], o[j])
    BY OrderedRows
<1>2. page = IF Len(o) > limit THEN [items |-> SubSeq(o, 1, limit), more |-> TRUE]
             ELSE [items |-> o, more |-> FALSE]
    BY DEF FirstRows
<1> HIDE DEF o, page
<1>3. CASE Len(o) > limit
    <2> DEFINE t == SubSeq(o, 1, limit)
    <2>1. /\ t \in Seq(S) /\ Len(t) = limit /\ DOMAIN t = 1 .. limit
          /\ \A i \in 1 .. limit : t[i] = o[i]
        BY <1>1, <1>3
    <2>2. page.items = t /\ page.more = TRUE
        BY <1>2, <1>3
    <2> HIDE DEF t
    <2>3. \A i, j \in DOMAIN t : i < j => Less(t[i], t[j])
        <3> SUFFICES ASSUME NEW i \in 1 .. limit, NEW j \in 1 .. limit, i < j PROVE Less(t[i], t[j])
            BY <2>1
        <3>1. i \in DOMAIN o /\ j \in DOMAIN o
            BY <1>1, <1>3
        <3> QED
            BY <1>1, <2>1, <3>1
    <2>4. ASSUME NEW x \in S
          PROVE  (\E i \in DOMAIN t : t[i] = x) \/ Less(t[Len(t)], x)
        <3>1. PICK i \in 1 .. Len(o) : o[i] = x
            BY <1>1
        <3>2. CASE i <= limit
            BY <2>1, <3>1, <3>2
        <3>3. CASE i > limit
            <4>1. limit \in DOMAIN o /\ i \in DOMAIN o /\ limit < i
                BY <1>1, <1>3, <3>3
            <4>2. Less(o[limit], o[i])
                BY <1>1, <4>1
            <4>3. t[Len(t)] = o[limit]
                BY <2>1
            <4> QED
                BY <3>1, <4>2, <4>3
        <3> QED
            BY <3>1, <3>2, <3>3
    <2> QED
        BY <2>1, <2>2, <2>3, <2>4 DEF page
<1>4. CASE ~(Len(o) > limit)
    <2>1. page.items = o /\ page.more = FALSE
        BY <1>2, <1>4
    <2> QED
        BY <1>1, <2>1 DEF page
<1> QED
    BY <1>3, <1>4

(***************************************************************************)
(* The inductive invariant                                                 *)
(***************************************************************************)

\* What is stored and what is under way are rows of lists there are.
Kept ==
    /\ store \in Stores /\ list \in Lists /\ now \in Nat /\ stamps \in Nat
    /\ rows \subseteq StoredRows /\ IsFiniteSet(rows)
    /\ batch \in [Writers -> SUBSET StoredRows] /\ \A w \in Writers : IsFiniteSet(batch[w])

\* No two of them have one id.
Distinct ==
    /\ \A x, y \in rows : x.id = y.id => x = y
    /\ \A w \in Writers : \A x \in batch[w] :
          /\ \A y \in rows : x.id # y.id
          /\ \A v \in Writers : \A y \in batch[v] : x.id = y.id => w = v /\ x = y

\* No commit has a timestamp that has not been given out.
Stamped ==
    /\ \A x \in rows : x.stamp <= stamps
    /\ \A w \in Writers : \A x \in batch[w] : x.stamp <= stamps

\* What is said of a reading k, with R stored, is said of any record k: it is
\* the walk before a step and after it.
Readings(R) ==
    [path : Paths, token : Places \cup {None}, w : Nat \cup {None}, mark : Nat \cup {None},
     start : SUBSET R, seen : Seq(R), done : BOOLEAN]

Seen(k) == {k.seen[i] : i \in DOMAIN k.seen}
Taken(k) == k.token # None /\ DecodeCursor(k.token, k.path) = "accepted"
Held(k)  == k.token # None /\ DecodeCursor(k.token, k.path) # "accepted"

\* Rows of its list, in the order of the store.
InSequence(k) ==
    /\ \A x \in k.start : x.path = k.path
    /\ \A i \in DOMAIN k.seen : k.seen[i].path = k.path
    /\ \A i, j \in DOMAIN k.seen : i < j => Less(k.seen[i], k.seen[j])

\* Until a token is taken nothing has been shown, unless all has been.
Beginning(k) ==
    /\ ~k.done /\ ~Taken(k) => k.seen = <<>> /\ (k.w = None => k.mark = None)
    /\ Held(k) => ~k.done /\ k.w = None

\* A token that is taken has the place of the last row shown, and of those
\* that were there in the beginning all that is missing comes after it.
GoingOn(k) ==
    Taken(k) =>
        /\ ~k.done /\ Len(k.seen) >= 1
        /\ LET l == k.seen[Len(k.seen)] IN
           k.token.at = l.at /\ k.token.seq = l.seq /\ k.token.id = l.id
        /\ \A x \in k.start : Passes(x, k.token) \/ x \in Seen(k)

Ending(k) == k.done => k.token = None /\ k.w = None /\ k.start \subseteq Seen(k)

\* The watermark of the first page is that of every page, and as late as what
\* was there in the beginning.
Watermarks(k) ==
    /\ k.w # None => Marked /\ k.mark = k.w
    /\ k.mark # None => \A x \in k.start : x.stamp <= k.mark
    /\ Marked => /\ \A x \in Seen(k) : k.mark # None /\ x.stamp <= k.mark
                 /\ Taken(k) => k.mark # None /\ k.token.wm = k.mark

Faithful(k, R) ==
    /\ k \in Readings(R)
    /\ InSequence(k) /\ Beginning(k) /\ GoingOn(k) /\ Ending(k) /\ Watermarks(k)

PInv == Kept /\ Distinct /\ Stamped /\ Faithful(walk, rows)

(***************************************************************************)
(* The steps of a reader                                                   *)
(***************************************************************************)

\* A token has one fate.
LEMMA TokensFate ==
    ASSUME NEW k
    PROVE  /\ Taken(k) <=> k.token # None /\ k.token.v = 3 /\ k.token.path = k.path
           /\ Held(k) <=> k.token # None /\ ~Taken(k)
BY DEF Taken, Held, DecodeCursor, ClassifyCursorVersion

\* A reading that begins, without a token or with one that will be refused.
LEMMA BeginningIsFaithful ==
    ASSUME Kept, NEW path \in Paths, NEW token \in Places \cup {None},
           token # None => token.v # 3 \/ token.path # path
    PROVE  Faithful(Reading(path, token), rows)
<1> DEFINE k == Reading(path, token)
<1>1. /\ k.path = path /\ k.token = token /\ k.w = None /\ k.mark = None /\ k.seen = <<>>
      /\ k.start = OfPath(path) /\ k.done = FALSE
    BY DEF Reading
<1>2. OfPath(path) \subseteq rows /\ \A x \in OfPath(path) : x.path = path
    BY DEF OfPath
<1>3. k \in Readings(rows)
    <2>1. <<>> \in Seq(rows)
        OBVIOUS
    <2> QED
        BY <1>2, <2>1 DEF Reading, Readings
<1> HIDE DEF k
<1>4. ~Taken(k)
    BY <1>1, TokensFate
<1>5. InSequence(k)
    BY <1>1, <1>2 DEF InSequence
<1>6. Beginning(k) /\ GoingOn(k) /\ Ending(k)
    BY <1>1, <1>4 DEF Beginning, GoingOn, Ending
<1>7. Watermarks(k)
    BY <1>1, <1>4 DEF Watermarks, Seen
<1> QED
    BY <1>3, <1>5, <1>6, <1>7 DEF Faithful, k

\* The reader turns to another list, or begins anew.
LEMMA VisitIsFaithful ==
    ASSUME Kept, Faithful(walk, rows), NEW path \in Paths, Visit(path)
    PROVE  Faithful(walk', rows)
<1>1. PICK v \in 2 .. 4 :
        LET kept == IF walk.token = None THEN None ELSE [walk.token EXCEPT !.v = v] IN
        /\ kept # None => v # 3 \/ kept.path # path
        /\ walk' = Reading(path, kept)
    BY DEF Visit
<1> DEFINE kept == IF walk.token = None THEN None ELSE [walk.token EXCEPT !.v = v]
<1>2. kept \in Places \cup {None} /\ (kept # None => kept.v = v)
    <2>1. walk.token \in Places \cup {None}
        BY DEF Faithful, Readings
    <2>2. CASE walk.token = None
        BY <2>2
    <2>3. CASE walk.token \in Places
        <3>1. [walk.token EXCEPT !.v = v] \in Places /\ [walk.token EXCEPT !.v = v].v = v
            BY <2>3 DEF Places
        <3> QED
            BY <3>1
    <2> QED
        BY <2>1, <2>2, <2>3
<1>3. (kept # None => kept.v # 3 \/ kept.path # path) /\ walk' = Reading(path, kept)
    BY <1>1, <1>2
<1> HIDE DEF kept
<1> QED
    BY <1>2, <1>3, BeginningIsFaithful

\* The token is dropped.
LEMMA WriteCursorErrorIsFaithful ==
    ASSUME Kept, Faithful(walk, rows), WriteCursorError
    PROVE  Faithful(walk', rows)
<1>1. walk.path \in Paths /\ walk' = Reading(walk.path, None)
    BY DEF Faithful, Readings, WriteCursorError
<1> QED
    BY <1>1, BeginningIsFaithful

\* The first watermark is as late as what was there in the beginning, and a
\* token brings it along.
LEMMA ResolveWatermarkIsFaithful ==
    ASSUME Kept, Stamped, Faithful(walk, rows), ResolveWatermark
    PROVE  Faithful(walk', rows)
<1> DEFINE w == IF walk.token # None /\ walk.token.wm # None THEN walk.token.wm ELSE stamps
           k == [walk EXCEPT !.w = w, !.mark = IF @ = None THEN w ELSE @]
<1>1. /\ Marked /\ ~Held(walk) /\ ~walk.done /\ walk.w = None /\ walk' = k
    BY DEF ResolveWatermark, Refused, Held
<1>2. walk \in Readings(rows)
    BY DEF Faithful
<1>3. w \in Nat
    <2>1. walk.token \in Places \cup {None} /\ stamps \in Nat
        BY <1>2 DEF Readings, Kept
    <2> QED
        BY <2>1 DEF Places
<1>4. w # None
    BY <1>3, NoneAssumption
<1> DEFINE m == IF walk.mark = None THEN w ELSE walk.mark
<1>5. m = w
    <2>1. CASE Taken(walk)
        <3>1. walk.mark # None /\ walk.token.wm = walk.mark /\ walk.token # None
            BY <1>1, <2>1 DEF Faithful, Watermarks, Taken
        <3> QED
            BY <3>1
    <2>2. CASE ~Taken(walk)
        <3>1. walk.mark = None
            BY <1>1, <2>2 DEF Faithful, Beginning
        <3> QED
            BY <3>1
    <2> QED
        BY <2>1, <2>2
<1>6. /\ k.path = walk.path /\ k.token = walk.token /\ k.start = walk.start /\ k.seen = walk.seen
      /\ k.done = walk.done /\ k.w = w /\ k.mark = w
    BY <1>2, <1>5 DEF Readings
<1>7. k \in Readings(rows)
    BY <1>2, <1>3, <1>5 DEF Readings
<1>8. \A x \in walk.start : x.stamp <= w
    <2>1. CASE walk.mark = None
        <3>1. w = stamps
            <4>1. ~Taken(walk)
                BY <1>1, <2>1 DEF Faithful, Watermarks
            <4>2. walk.token = None
                BY <1>1, <4>1, TokensFate
            <4> QED
                BY <4>2
        <3>2. walk.start \subseteq rows
            BY <1>2 DEF Readings
        <3> QED
            BY <3>1, <3>2 DEF Stamped
    <2>2. CASE walk.mark # None
        BY <1>5, <2>2 DEF Faithful, Watermarks
    <2> QED
        BY <2>1, <2>2
<1>9. (Taken(k) <=> Taken(walk)) /\ (Held(k) <=> Held(walk)) /\ Seen(k) = Seen(walk)
    BY <1>6 DEF Taken, Held, Seen
<1>10. \A x \in Seen(walk) : walk.mark # None /\ x.stamp <= walk.mark
    BY <1>1 DEF Faithful, Watermarks
<1>11. Taken(walk) => walk.mark # None /\ walk.token.wm = walk.mark
    BY <1>1 DEF Faithful, Watermarks
<1> HIDE DEF k, w
<1>12. Watermarks(k)
    <2>1. \A x \in Seen(walk) : x.stamp <= w
        BY <1>5, <1>10
    <2>2. Taken(walk) => walk.token.wm = w
        BY <1>5, <1>11
    <2> QED
        BY <1>1, <1>4, <1>6, <1>8, <1>9, <2>1, <2>2 DEF Watermarks
<1>13. InSequence(k)
    BY <1>6 DEF Faithful, InSequence
<1>14. Beginning(k)
    <2>1. ~Taken(walk) => walk.seen = <<>>
        BY <1>1 DEF Faithful, Beginning
    <2> QED
        BY <1>1, <1>4, <1>6, <1>9, <2>1 DEF Beginning
<1>15. GoingOn(k) /\ Ending(k)
    BY <1>1, <1>6, <1>9 DEF Faithful, GoingOn, Ending
<1> QED
    BY <1>1, <1>7, <1>12, <1>13, <1>14, <1>15 DEF Faithful

\* What two sequences have in all.
LEMMA Joined ==
    ASSUME NEW S, NEW s \in Seq(S), NEW t \in Seq(S)
    PROVE  /\ s \o t \in Seq(S) /\ Len(s) \in Nat /\ Len(t) \in Nat
           /\ DOMAIN s = 1 .. Len(s) /\ DOMAIN t = 1 .. Len(t)
           /\ Len(s \o t) = Len(s) + Len(t) /\ DOMAIN (s \o t) = 1 .. Len(s) + Len(t)
           /\ \A i \in 1 .. Len(s) : (s \o t)[i] = s[i]
           /\ \A i \in 1 .. Len(t) : (s \o t)[Len(s) + i] = t[i]
           /\ \A i \in 1 .. Len(s) + Len(t) :
                 i \in 1 .. Len(s) \/ (i - Len(s) \in 1 .. Len(t) /\ i = Len(s) + (i - Len(s)))
OBVIOUS

\* The rows a page is made of come after all that has been shown.
LEMMA PageIsAfter ==
    ASSUME Kept, Faithful(walk, rows), ~Held(walk), ~walk.done,
           NEW x \in OfPath(walk.path), Passes(x, walk.token), NEW i \in DOMAIN walk.seen
    PROVE  Less(walk.seen[i], x)
<1>1. list \in Lists /\ rows \subseteq StoredRows /\ x \in rows
    BY DEF Kept, OfPath
<1>2. walk \in Readings(rows) /\ walk.seen \in Seq(rows) /\ walk.token \in Places \cup {None}
    BY DEF Faithful, Readings
<1>3. walk.seen # <<>> /\ i \in 1 .. Len(walk.seen) /\ Len(walk.seen) \in Nat
    BY <1>2
<1>4. Taken(walk)
    BY <1>3 DEF Faithful, Beginning
<1> DEFINE n == Len(walk.seen)
           l == walk.seen[n]
<1>5. /\ walk.token # None /\ l \in rows /\ walk.seen[i] \in rows
      /\ walk.token.at = l.at /\ walk.token.seq = l.seq /\ walk.token.id = l.id
    BY <1>2, <1>3, <1>4 DEF Faithful, GoingOn, Taken
<1>6. Less(l, x)
    BY <1>1, <1>5, PassesIsAfter
<1>7. CASE i = n
    BY <1>6, <1>7
<1>8. CASE i < n
    <2>1. Less(walk.seen[i], l)
        BY <1>2, <1>3, <1>8 DEF Faithful, InSequence
    <2> HIDE DEF l
    <2> QED
        BY <1>1, <1>5, <1>6, <2>1, RowsInOrder
<1> QED
    BY <1>3, <1>7, <1>8

\* A page is read, and the walk is over or has the token of its last row.
LEMMA ReadPageIsFaithful ==
    ASSUME Kept, Distinct, Faithful(walk, rows), ReadPage
    PROVE  Faithful(walk', rows)
<1>1. ~Held(walk) /\ ~walk.done /\ (Marked => walk.w # None)
    BY DEF ReadPage, Refused, Held
<1>2. PICK asked \in 0 .. MaxLimit + 1 :
        LET page == ListPage(walk.path, walk.token, walk.w, asked) IN
        walk' = [walk EXCEPT !.seen = @ \o page.items, !.w = None, !.done = ~page.more,
                             !.token = IF page.more THEN EncodeCursor(Last(page.items), walk.path)
                                       ELSE None]
    BY DEF ReadPage
<1> DEFINE limit == ClampLimit(asked)
           M == {x \in OfPath(walk.path) : UnderWatermark(x, walk.w) /\ Passes(x, walk.token)}
           page == FirstRows(M, limit)
           t == page.items
           s == walk.seen
           token == IF page.more THEN EncodeCursor(Last(t), walk.path) ELSE None
           k == [walk EXCEPT !.seen = s \o t, !.w = None, !.done = ~page.more, !.token = token]
<1>3. walk' = k
    BY <1>2 DEF ListPage
<1>4. walk \in Readings(rows) /\ s \in Seq(rows) /\ walk.path \in Paths
    BY DEF Faithful, Readings
<1>5. list \in Lists /\ rows \subseteq StoredRows /\ Orderable(M) /\ M \subseteq rows
    <2>1. M \subseteq rows
        BY DEF OfPath
    <2> QED
        BY <2>1, FS_Subset DEF Kept, Distinct, Orderable
<1>6. limit \in Nat /\ limit >= 1
    BY PagesConstants DEF ClampLimit
<1>7. /\ t \in Seq(M) /\ page.more \in BOOLEAN
      /\ \A i, j \in DOMAIN t : i < j => Less(t[i], t[j])
      /\ ~page.more => \A x \in M : \E i \in DOMAIN t : t[i] = x
      /\ page.more =>
            /\ Len(t) >= 1
            /\ \A x \in M : (\E i \in DOMAIN t : t[i] = x) \/ Less(t[Len(t)], x)
    <2> HIDE DEF M, limit
    <2> QED
        BY <1>5, <1>6, PageOfRows
<1>8. t \in Seq(rows) /\ \A i \in DOMAIN t : t[i] \in M
    <2> HIDE DEF M, t
    <2> QED
        BY <1>5, <1>7
<1>9. \A x \in M : x \in rows /\ x.path = walk.path /\ UnderWatermark(x, walk.w) /\ Passes(x, walk.token)
    BY DEF OfPath
<1>10. \A i \in DOMAIN s, x \in M : Less(s[i], x)
    BY <1>1, PageIsAfter
<1>11. \A x \in walk.start : x \in Seen(walk) \/ x \in M
    <2> SUFFICES ASSUME NEW x \in walk.start, x \notin Seen(walk) PROVE x \in M
        OBVIOUS
    <2>1. x \in OfPath(walk.path)
        BY <1>4 DEF Faithful, InSequence, Readings, OfPath
    <2>2. UnderWatermark(x, walk.w)
        <3>1. CASE Marked
            <4>1. walk.mark = walk.w /\ walk.mark # None
                BY <1>1, <3>1 DEF Faithful, Watermarks
            <4> QED
                BY <4>1 DEF Faithful, Watermarks, UnderWatermark
        <3> QED
            BY <3>1 DEF UnderWatermark
    <2>3. Passes(x, walk.token)
        <3>1. CASE walk.token = None
            BY <3>1 DEF Passes
        <3>2. CASE walk.token # None
            <4>1. Taken(walk)
                BY <1>1, <3>2, TokensFate
            <4> QED
                BY <4>1 DEF Faithful, GoingOn
        <3> QED
            BY <3>1, <3>2
    <2> QED
        BY <2>1, <2>2, <2>3
<1>12. /\ k.path = walk.path /\ k.start = walk.start /\ k.mark = walk.mark
       /\ k.seen = s \o t /\ k.w = None /\ k.done = ~page.more /\ k.token = token
    BY <1>4 DEF Readings
<1> HIDE DEF M, page, t, limit
<1>13. Seen(k) = Seen(walk) \cup {t[i] : i \in DOMAIN t}
    <2> HIDE DEF k
    <2>1. \A i \in DOMAIN s : \E j \in DOMAIN k.seen : k.seen[j] = s[i]
        <3> SUFFICES ASSUME NEW i \in DOMAIN s PROVE \E j \in DOMAIN k.seen : k.seen[j] = s[i]
            OBVIOUS
        <3>1. i \in DOMAIN k.seen /\ k.seen[i] = s[i]
            BY <1>4, <1>8, <1>12, Joined
        <3> QED
            BY <3>1
    <2>2. \A i \in DOMAIN t : \E j \in DOMAIN k.seen : k.seen[j] = t[i]
        <3> SUFFICES ASSUME NEW i \in DOMAIN t PROVE \E j \in DOMAIN k.seen : k.seen[j] = t[i]
            OBVIOUS
        <3>1. Len(s) + i \in DOMAIN k.seen /\ k.seen[Len(s) + i] = t[i]
            BY <1>4, <1>8, <1>12, Joined
        <3> QED
            BY <3>1
    <2>3. \A j \in DOMAIN k.seen :
            (\E i \in DOMAIN s : k.seen[j] = s[i]) \/ (\E i \in DOMAIN t : k.seen[j] = t[i])
        <3> SUFFICES ASSUME NEW j \in DOMAIN k.seen
                     PROVE  (\E i \in DOMAIN s : k.seen[j] = s[i]) \/ (\E i \in DOMAIN t : k.seen[j] = t[i])
            OBVIOUS
        <3>1. j \in DOMAIN s \/ (j - Len(s) \in DOMAIN t /\ j = Len(s) + (j - Len(s)))
            <4>1. /\ DOMAIN k.seen = 1 .. Len(s) + Len(t) /\ DOMAIN s = 1 .. Len(s)
                  /\ DOMAIN t = 1 .. Len(t)
                BY <1>4, <1>8, <1>12, Joined
            <4>2. /\ Len(s) \in Nat /\ Len(t) \in Nat
                BY <1>4, <1>8, Joined
            <4> HIDE DEF s
            <4> QED
                BY <4>1, <4>2
        <3>2. CASE j \in DOMAIN s
            <4>1. k.seen[j] = s[j]
                BY <1>4, <1>8, <1>12, <3>2, Joined
            <4> QED
                BY <3>2, <4>1
        <3>3. CASE j - Len(s) \in DOMAIN t /\ j = Len(s) + (j - Len(s))
            <4> DEFINE i == j - Len(s)
            <4>1. i \in 1 .. Len(t) /\ j = Len(s) + i
                BY <1>8, <3>3, Joined
            <4> HIDE DEF i
            <4>2. k.seen[j] = t[i] /\ i \in DOMAIN t
                BY <1>4, <1>8, <1>12, <4>1, Joined
            <4> QED
                BY <4>2
        <3> QED
            BY <3>1, <3>2, <3>3
    <2> QED
        BY <2>1, <2>2, <2>3 DEF Seen
<1>14. InSequence(k)
    <2>1. \A x \in k.start : x.path = k.path
        BY <1>12 DEF Faithful, InSequence
    <2>2. \A i \in DOMAIN s : s[i] \in Seen(walk) /\ s[i].path = walk.path
        BY DEF Faithful, InSequence, Seen
    <2>3. \A i \in DOMAIN k.seen : k.seen[i].path = k.path
        <3>1. \A x \in Seen(k) : x.path = walk.path
            BY <1>8, <1>9, <1>13, <2>2 DEF Seen
        <3> HIDE DEF k
        <3> QED
            BY <1>12, <3>1 DEF Seen
    <2>4. ASSUME NEW i \in DOMAIN k.seen, NEW j \in DOMAIN k.seen, i < j
          PROVE  Less(k.seen[i], k.seen[j])
        <3> DEFINE n == Len(s)
        <3>1. /\ n \in Nat /\ i \in 1 .. n + Len(t) /\ j \in 1 .. n + Len(t)
              /\ DOMAIN s = 1 .. n /\ DOMAIN t = 1 .. Len(t) /\ Len(t) \in Nat
            BY <1>4, <1>8, <1>12, <2>4, Joined
        <3>2. \A h \in 1 .. n : k.seen[h] = s[h]
            BY <1>4, <1>8, <1>12, Joined
        <3>3. \A h \in 1 .. n + Len(t) : h > n => h - n \in DOMAIN t /\ k.seen[h] = t[h - n]
            BY <1>4, <1>8, <1>12, Joined
        <3> HIDE DEF n, k, s
        <3>4. CASE j <= n
            <4>1. i \in DOMAIN s /\ j \in DOMAIN s
                BY <2>4, <3>1, <3>4
            <4>2. Less(s[i], s[j])
                BY <2>4, <4>1 DEF Faithful, InSequence, s
            <4> QED
                BY <3>1, <3>2, <4>1, <4>2
        <3>5. CASE i <= n /\ j > n
            <4>1. i \in DOMAIN s /\ k.seen[j] \in M
                BY <1>8, <3>1, <3>3, <3>5
            <4> QED
                BY <1>10, <3>1, <3>2, <4>1
        <3>6. CASE i > n
            <4>1. i - n \in DOMAIN t /\ j - n \in DOMAIN t /\ i - n < j - n
                BY <2>4, <3>1, <3>3, <3>6
            <4>2. k.seen[i] = t[i - n] /\ k.seen[j] = t[j - n]
                BY <2>4, <3>1, <3>3, <3>6
            <4> QED
                BY <1>7, <4>1, <4>2
        <3> QED
            BY <2>4, <3>1, <3>4, <3>5, <3>6
    <2> HIDE DEF k
    <2> QED
        BY <2>1, <2>3, <2>4 DEF InSequence
\* the rows shown are those of the watermark, and it goes on with the token
<1>15. Marked => walk.mark = walk.w /\ walk.mark # None
    BY <1>1 DEF Faithful, Watermarks
<1>16. \A x \in Seen(k) : Marked => x.stamp <= walk.mark
    BY <1>8, <1>9, <1>13, <1>15 DEF Faithful, Watermarks, UnderWatermark
<1>17. CASE ~page.more
    <2>1. k.token = None /\ k.done = TRUE /\ ~Taken(k) /\ ~Held(k)
        BY <1>12, <1>17 DEF Taken, Held
    <2>2. k.start \subseteq Seen(k)
        BY <1>7, <1>11, <1>12, <1>13, <1>17
    <2>3. k \in Readings(rows)
        <3>1. s \o t \in Seq(rows)
            BY <1>4, <1>8, Joined
        <3> QED
            BY <1>4, <1>12, <1>17, <3>1 DEF Readings
    <2> HIDE DEF k
    <2>4. Beginning(k) /\ GoingOn(k) /\ Ending(k)
        BY <1>12, <2>1, <2>2 DEF Beginning, GoingOn, Ending
    <2>5. Watermarks(k)
        BY <1>12, <1>15, <1>16, <2>1 DEF Faithful, Watermarks
    <2> QED
        BY <1>3, <1>14, <2>3, <2>4, <2>5 DEF Faithful, k
<1>18. CASE page.more
    <2> DEFINE l == t[Len(t)]
    <2>1. Len(t) \in Nat /\ Len(t) \in DOMAIN t /\ l \in M /\ l \in rows /\ Last(t) = l
        BY <1>7, <1>8, <1>9, <1>18 DEF Last
    <2>2. k.token = EncodeCursor(l, walk.path) /\ k.done = FALSE
        BY <1>12, <1>18, <2>1
    <2>3. /\ k.token.v = 3 /\ k.token.path = walk.path
          /\ k.token.at = l.at /\ k.token.seq = l.seq /\ k.token.id = l.id
          /\ k.token.wm = IF Marked THEN walk.w ELSE None
        BY <2>2 DEF EncodeCursor
    <2>4. k.token \in Places
        <3>1. l.at \in Nat /\ l.seq \in {None, 1, 2} /\ l.id \in Nat
            BY <1>5, <2>1 DEF StoredRows
        <3>2. walk.path \in AnyPath /\ walk.w \in Nat \cup {None}
            BY <1>4 DEF Readings, Paths, AnyPath
        <3> HIDE DEF l
        <3> QED
            BY <2>2, <3>1, <3>2 DEF EncodeCursor, Places
    <2>5. k.token # None
        BY <2>4, NoneAssumption DEF Places, AnyPath
    <2>6. Taken(k) /\ ~Held(k)
        BY <1>12, <2>3, <2>5, TokensFate
    <2>7. s \o t \in Seq(rows) /\ Len(s \o t) = Len(s) + Len(t) /\ (s \o t)[Len(s) + Len(t)] = l
          /\ Len(s) \in Nat /\ Len(t) >= 1
        BY <1>4, <1>7, <1>8, <1>18, <2>1, Joined
    <2>8. k \in Readings(rows)
        BY <1>4, <1>12, <2>2, <2>4, <2>7 DEF Readings
    <2> HIDE DEF k, l
    <2>9. Beginning(k) /\ Ending(k)
        BY <2>2, <2>6 DEF Beginning, Ending
    <2>10. GoingOn(k)
        <3>1. Len(k.seen) >= 1 /\ k.seen[Len(k.seen)] = l
            BY <1>12, <2>1, <2>7
        <3>2. ASSUME NEW x \in k.start
              PROVE  Passes(x, k.token) \/ x \in Seen(k)
            <4>1. CASE x \in Seen(walk) \/ \E i \in DOMAIN t : t[i] = x
                BY <1>13, <4>1
            <4>2. CASE x \in M /\ Less(l, x)
                <5>1. x \in StoredRows /\ l \in StoredRows
                    BY <1>5, <2>1, <4>2
                <5> QED
                    BY <1>5, <2>3, <2>5, <4>2, <5>1, PassesIsAfter
            <4>3. x \in Seen(walk) \/ x \in M
                BY <1>11, <1>12
            <4> QED
                BY <1>7, <1>18, <4>1, <4>2, <4>3 DEF l
        <3> QED
            BY <2>2, <2>3, <3>1, <3>2 DEF GoingOn
    <2>11. Watermarks(k)
        BY <1>12, <1>15, <1>16, <2>3, <2>6 DEF Faithful, Watermarks
    <2> QED
        BY <1>3, <1>14, <2>8, <2>9, <2>10, <2>11 DEF Faithful, k
<1> QED
    BY <1>7, <1>17, <1>18(***************************************************************************)
(* The steps of the writers                                                *)
(***************************************************************************)

\* More rows take nothing from a reading.
LEMMA MoreRows ==
    ASSUME NEW R, NEW k, NEW Q, R \subseteq Q, Faithful(k, R)
    PROVE  Faithful(k, Q)
<1>1. k \in Readings(R)
    BY DEF Faithful
<1>2. \A s \in Seq(R) : s \in Seq(Q)
    <2> SUFFICES ASSUME NEW s \in Seq(R) PROVE s \in Seq(Q)
        OBVIOUS
    <2>1. s \in [1 .. Len(s) -> Q] /\ Len(s) \in Nat
        OBVIOUS
    <2> QED
        BY <2>1
<1>3. k \in Readings(Q)
    BY <1>1, <1>2 DEF Readings
<1> QED
    BY <1>3 DEF Faithful

\* Nothing a reading depends on has changed but the rows and the reading.
LEMMA ReadingGoesOn ==
    ASSUME store' = store, list' = list, Faithful(walk', rows')
    PROVE  Faithful(walk, rows)'
<1>1. ASSUME NEW k PROVE (Taken(k)' <=> Taken(k)) /\ (Held(k)' <=> Held(k)) /\ Seen(k)' = Seen(k)
    BY DEF Taken, Held, Seen, DecodeCursor, ClassifyCursorVersion
<1>2. ASSUME NEW s, NEW t PROVE Earlier(s, t)' <=> Earlier(s, t)
    BY DEF Earlier, TextBefore, FormatTime
<1>3. ASSUME NEW x, NEW y PROVE (Less(x, y)' <=> Less(x, y)) /\ (Passes(x, y)' <=> Passes(x, y))
    BY <1>2 DEF Less, EventLess, SessionLess, SampleLess, Passes, EventPasses, SessionPasses,
                SamplePasses, NullableSeqValue
<1>4. (walk \in Readings(rows))'
    BY DEF Faithful, Readings, Paths
<1>5. InSequence(walk)'
    BY <1>3 DEF Faithful, InSequence
<1>6. Beginning(walk)' /\ Ending(walk)'
    BY <1>1 DEF Faithful, Beginning, Ending
<1>7. GoingOn(walk)'
    BY <1>1, <1>3 DEF Faithful, GoingOn
<1>8. Watermarks(walk)'
    BY <1>1 DEF Faithful, Watermarks, Marked
<1> QED
    BY <1>4, <1>5, <1>6, <1>7, <1>8 DEF Faithful

\* What is stored depends on nothing else.
LEMMA StorageStays ==
    ASSUME Kept, Distinct, Stamped, UNCHANGED <<store, list, now, rows, batch, stamps>>
    PROVE  Kept' /\ Distinct' /\ Stamped'
BY DEF Kept, Distinct, Stamped, StoredRows, Paths, Stores, Lists

\* A batch is received: rows of one moment with ids that are free.
LEMMA ReceiveIsKept ==
    ASSUME Kept, Distinct, Stamped, NEW w \in Writers, Receive(w)
    PROVE  Kept' /\ Distinct' /\ Stamped'
<1>1. PICK path \in Paths, ids \in SUBSET (Ids \ Used), seq \in {None, 1} :
        batch' = [batch EXCEPT ![w] =
            {[path |-> path, at |-> now, id |-> i, stamp |-> 0,
              seq |-> IF list = "events" /\ \E j \in ids : j < i THEN 2 ELSE seq] : i \in ids}]
    BY ZenonT(40) DEF Receive
<1>2. UNCHANGED <<store, list, now, rows, stamps, walk>>
    BY DEF Receive
<1> DEFINE f == [i \in ids |->
                    [path |-> path, at |-> now, id |-> i, stamp |-> 0,
                     seq |-> IF list = "events" /\ \E j \in ids : j < i THEN 2 ELSE seq]]
           B == {f[i] : i \in ids}
<1>3. batch' = [batch EXCEPT ![w] = B]
    BY <1>1
<1>4. \A i \in ids : /\ f[i] \in StoredRows /\ f[i].id = i /\ f[i].stamp = 0
    <2>1. path \in AnyPath
        BY DEF Paths, AnyPath
    <2>2. now \in Nat /\ \A i \in ids : i \in Nat
        BY DEF Kept, Ids
    <2> QED
        BY <2>1, <2>2 DEF StoredRows
<1>5. IsFiniteSet(ids)
    <2>1. IsFiniteSet(1 .. MaxRows)
        BY PagesConstants, FS_Interval
    <2> QED
        BY <2>1, FS_Subset DEF Ids
<1>6. DOMAIN f = ids
    OBVIOUS
<1> HIDE DEF f
<1>7. IsFiniteSet(B)
    <2>1. f \in Surjection(ids, B)
        <3>1. f \in [ids -> B]
            <4>1. f = [i \in ids |-> f[i]]
                BY DEF f
            <4> QED
                BY <4>1
        <3> QED
            BY <3>1 DEF Surjection
    <2> HIDE DEF B
    <2> QED
        BY <1>5, <2>1, FS_Surjection
<1>8. \A x \in B : x \in StoredRows /\ x.id \in ids /\ x.stamp = 0
    BY <1>4
<1>9. \A x, y \in B : x.id = y.id => x = y
    BY <1>4
<1> HIDE DEF B
<1>10. \A i \in ids : (\A y \in rows : y.id # i) /\ (\A v \in Writers : \A y \in batch[v] : y.id # i)
    BY DEF Used
<1>11. batch \in [Writers -> SUBSET StoredRows]
    BY DEF Kept
<1>12. /\ batch'[w] = B /\ batch' \in [Writers -> SUBSET StoredRows]
       /\ \A v \in Writers : v # w => batch'[v] = batch[v]
    BY <1>3, <1>8, <1>11
<1>13. Kept'
    <2>1. \A v \in Writers : IsFiniteSet(batch'[v])
        BY <1>7, <1>12 DEF Kept
    <2> QED
        BY <1>2, <1>12, <2>1 DEF Kept, StoredRows, Paths, Stores, Lists
<1>14. Distinct'
    <2>1. \A x, y \in rows : x.id = y.id => x = y
        BY DEF Distinct
    <2>2. ASSUME NEW v \in Writers, NEW x \in batch'[v], NEW y \in rows
          PROVE  x.id # y.id
        BY <1>8, <1>10, <1>12, <2>2 DEF Distinct
    <2>3. ASSUME NEW v \in Writers, NEW x \in batch'[v], NEW u \in Writers, NEW y \in batch'[u],
                 x.id = y.id
          PROVE  v = u /\ x = y
        <3>1. CASE v = w /\ u = w
            BY <1>9, <1>12, <2>3, <3>1
        <3>2. CASE v = w /\ u # w
            BY <1>8, <1>10, <1>12, <2>3, <3>2
        <3>3. CASE v # w /\ u = w
            BY <1>8, <1>10, <1>12, <2>3, <3>3
        <3>4. CASE v # w /\ u # w
            BY <1>12, <2>3, <3>4 DEF Distinct
        <3> QED
            BY <3>1, <3>2, <3>3, <3>4
    <2>4. rows' = rows
        BY <1>2
    <2> QED
        BY <2>1, <2>2, <2>3, <2>4 DEF Distinct
<1>15. Stamped'
    <2>1. \A v \in Writers : \A x \in batch'[v] : x.stamp <= stamps
        BY <1>8, <1>12 DEF Stamped, Kept
    <2> QED
        BY <1>2, <2>1 DEF Stamped
<1> QED
    BY <1>13, <1>14, <1>15

\* A batch gets its timestamp.
LEMMA StampIsKept ==
    ASSUME Kept, Distinct, Stamped, NEW w \in Writers, Stamp(w)
    PROVE  Kept' /\ Distinct' /\ Stamped'
<1> DEFINE n == stamps + 1
           f == [x \in batch[w] |-> [x EXCEPT !.stamp = n]]
           B == {f[x] : x \in batch[w]}
<1>1. UNCHANGED <<store, list, now, rows, walk>> /\ stamps' = n
    BY DEF Stamp
<1>2. batch \in [Writers -> SUBSET StoredRows] /\ stamps \in Nat /\ n \in Nat
    BY DEF Kept
<1>3. batch' = [batch EXCEPT ![w] = B]
    BY <1>2 DEF Stamp
<1>4. \A x \in batch[w] : f[x] \in StoredRows /\ f[x].id = x.id /\ f[x].stamp = n
    <2> SUFFICES ASSUME NEW x \in batch[w]
                 PROVE  f[x] \in StoredRows /\ f[x].id = x.id /\ f[x].stamp = n
        OBVIOUS
    <2>1. x \in StoredRows
        BY <1>2
    <2> HIDE DEF n
    <2>2. f[x] = [x EXCEPT !.stamp = n]
        OBVIOUS
    <2> QED
        BY <1>2, <2>1, <2>2 DEF StoredRows
<1>5. DOMAIN f = batch[w] /\ f = [x \in batch[w] |-> f[x]]
    OBVIOUS
<1> HIDE DEF f, n
<1>6. IsFiniteSet(B)
    <2>1. f \in Surjection(batch[w], B)
        <3>1. f \in [batch[w] -> B]
            BY <1>5
        <3> QED
            BY <3>1 DEF Surjection
    <2>2. IsFiniteSet(batch[w])
        BY DEF Kept
    <2> HIDE DEF B
    <2> QED
        BY <2>1, <2>2, FS_Surjection
<1>7. \A y \in B : y \in StoredRows /\ y.stamp = n /\ \E x \in batch[w] : y = f[x] /\ y.id = x.id
    BY <1>4
<1> HIDE DEF B
<1>8. /\ batch'[w] = B /\ batch' \in [Writers -> SUBSET StoredRows]
      /\ \A v \in Writers : v # w => batch'[v] = batch[v]
    BY <1>2, <1>3, <1>7
\* ids are as they were
<1>9. \A v \in Writers : \A y \in batch'[v] :
         \E x \in batch[v] : y.id = x.id /\ y = IF v = w THEN f[x] ELSE x
    BY <1>7, <1>8
<1>10. Kept'
    <2>1. \A v \in Writers : IsFiniteSet(batch'[v])
        BY <1>6, <1>8 DEF Kept
    <2> QED
        BY <1>1, <1>2, <1>8, <2>1 DEF Kept, StoredRows, Paths, Stores, Lists
<1>11. Distinct'
    <2>1. \A x, y \in rows : x.id = y.id => x = y
        BY DEF Distinct
    <2>2. ASSUME NEW v \in Writers, NEW x \in batch'[v], NEW y \in rows
          PROVE  x.id # y.id
        BY <1>9, <2>2 DEF Distinct
    <2>3. ASSUME NEW v \in Writers, NEW x \in batch'[v], NEW u \in Writers, NEW y \in batch'[u],
                 x.id = y.id
          PROVE  v = u /\ x = y
        <3>1. PICK a \in batch[v] : x.id = a.id /\ x = IF v = w THEN f[a] ELSE a
            BY <1>9, <2>3
        <3>2. PICK b \in batch[u] : y.id = b.id /\ y = IF u = w THEN f[b] ELSE b
            BY <1>9, <2>3
        <3>3. a.id = b.id
            BY <2>3, <3>1, <3>2
        <3>4. v = u /\ a = b
            BY <3>3 DEF Distinct
        <3> QED
            BY <3>1, <3>2, <3>4
    <2>4. rows' = rows
        BY <1>1
    <2> QED
        BY <2>1, <2>2, <2>3, <2>4 DEF Distinct
<1>12. Stamped'
    <2>1. \A x \in rows : x.stamp \in Nat /\ x.stamp <= stamps
        BY DEF Stamped, Kept, StoredRows
    <2>2. \A x \in rows : x.stamp <= n
        BY <1>2, <2>1 DEF n
    <2>3. \A v \in Writers : \A x \in batch[v] : x.stamp \in Nat /\ x.stamp <= stamps
        BY <1>2 DEF Stamped, StoredRows
    <2>4. \A v \in Writers : \A x \in batch'[v] : x.stamp <= n
        BY <1>2, <1>7, <1>8, <2>3 DEF n
    <2> QED
        BY <1>1, <2>2, <2>4 DEF Stamped
<1> QED
    BY <1>10, <1>11, <1>12

\* A batch becomes visible.
LEMMA ShowIsKept ==
    ASSUME Kept, Distinct, Stamped, NEW w \in Writers, Show(w)
    PROVE  Kept' /\ Distinct' /\ Stamped'
<1>1. /\ UNCHANGED <<store, list, now, stamps, walk>> /\ rows' = rows \cup batch[w]
      /\ batch' = [batch EXCEPT ![w] = {}]
    BY DEF Show
<1>2. batch \in [Writers -> SUBSET StoredRows]
    BY DEF Kept
<1>3. /\ batch'[w] = {} /\ batch' \in [Writers -> SUBSET StoredRows]
      /\ \A v \in Writers : v # w => batch'[v] = batch[v]
    BY <1>1, <1>2
<1>4. Kept'
    <2>1. \A v \in Writers : IsFiniteSet(batch'[v])
        BY <1>3, FS_EmptySet DEF Kept
    <2>2. IsFiniteSet(rows')
        BY <1>1, FS_Union DEF Kept
    <2> QED
        BY <1>1, <1>2, <1>3, <2>1, <2>2 DEF Kept, StoredRows, Paths, Stores, Lists
<1>5. Distinct'
    <2>1. ASSUME NEW x \in rows', NEW y \in rows', x.id = y.id
          PROVE  x = y
        BY <1>1, <2>1 DEF Distinct
    <2>2. ASSUME NEW v \in Writers, NEW x \in batch'[v]
          PROVE  v # w /\ x \in batch[v]
        BY <1>3, <2>2
    <2>3. ASSUME NEW v \in Writers, NEW x \in batch'[v], NEW y \in rows'
          PROVE  x.id # y.id
        BY <1>1, <2>2, <2>3 DEF Distinct
    <2>4. ASSUME NEW v \in Writers, NEW x \in batch'[v], NEW u \in Writers, NEW y \in batch'[u],
                 x.id = y.id
          PROVE  v = u /\ x = y
        BY <2>2, <2>4 DEF Distinct
    <2> QED
        BY <2>1, <2>3, <2>4 DEF Distinct
<1>6. Stamped'
    <2>1. \A v \in Writers : \A x \in batch'[v] : x.stamp <= stamps
        BY <1>3 DEF Stamped
    <2> QED
        BY <1>1, <2>1 DEF Stamped
<1> QED
    BY <1>4, <1>5, <1>6

\* A batch is lost.
LEMMA FailIsKept ==
    ASSUME Kept, Distinct, Stamped, NEW w \in Writers, Fail(w)
    PROVE  Kept' /\ Distinct' /\ Stamped'
<1>1. UNCHANGED <<store, list, now, rows, stamps, walk>> /\ batch' = [batch EXCEPT ![w] = {}]
    BY DEF Fail
<1>2. batch \in [Writers -> SUBSET StoredRows]
    BY DEF Kept
<1>3. /\ batch'[w] = {} /\ batch' \in [Writers -> SUBSET StoredRows]
      /\ \A v \in Writers : v # w => batch'[v] = batch[v]
    BY <1>1, <1>2
<1>4. Kept'
    <2>1. \A v \in Writers : IsFiniteSet(batch'[v])
        BY <1>3, FS_EmptySet DEF Kept
    <2> QED
        BY <1>1, <1>3, <2>1 DEF Kept, StoredRows, Paths, Stores, Lists
<1>5. ASSUME NEW v \in Writers, NEW x \in batch'[v]
      PROVE  x \in batch[v]
    BY <1>3, <1>5
<1>6. Distinct'
    BY <1>1, <1>5 DEF Distinct
<1>7. Stamped'
    BY <1>1, <1>5 DEF Stamped
<1> QED
    BY <1>4, <1>6, <1>7(***************************************************************************)
(* The reading of pages                                                    *)
(***************************************************************************)

\* Nothing is stored but, in a database of an earlier release, a session.
LEMMA BeginningIsKept ==
    ASSUME ReadInit
    PROVE  Kept /\ Distinct /\ Stamped
<1>1. batch = [w \in Writers |-> {}] /\ now = 0 /\ stamps = 0
    BY DEF ReadInit, Init, AnalysisInit
<1>2. store \in Stores /\ list \in Lists
    BY DEF ReadInit, Init, AnalysisInit, Stores, Lists
<1>3. \A w \in Writers : batch[w] = {} /\ IsFiniteSet(batch[w])
    BY <1>1, FS_EmptySet
<1>4. CASE Init
    <2>1. rows = {}
        BY <1>4 DEF Init
    <2> QED
        BY <1>1, <1>2, <1>3, <2>1, FS_EmptySet DEF Kept, Distinct, Stamped
<1>5. CASE AnalysisInit
    <2>1. PICK path \in Paths :
            rows \in {{}, {[path |-> path, at |-> 0, seq |-> None, id |-> 1, stamp |-> 0]}}
        BY <1>5 DEF AnalysisInit
    <2> DEFINE r == [path |-> path, at |-> 0, seq |-> None, id |-> 1, stamp |-> 0]
    <2>2. r \in StoredRows /\ r.stamp = 0
        BY DEF StoredRows
    <2> HIDE DEF r
    <2>3. rows = {} \/ rows = {r}
        BY <2>1 DEF r
    <2>4. IsFiniteSet({}) /\ IsFiniteSet({r})
        BY FS_EmptySet, FS_Singleton
    <2> QED
        BY <1>1, <1>2, <1>3, <2>2, <2>3, <2>4 DEF Kept, Distinct, Stamped
<1> QED
    BY <1>4, <1>5 DEF ReadInit

\* The invariant holds in the beginning.
LEMMA PagesBegin ==
    ASSUME ReadInit
    PROVE  PInv
<1>1. Kept /\ Distinct /\ Stamped
    BY BeginningIsKept
<1>2. \E path \in Paths : walk = Reading(path, None)
    BY DEF ReadInit, Init, AnalysisInit
<1>3. Faithful(walk, rows)
    BY <1>1, <1>2, BeginningIsFaithful
<1> QED
    BY <1>1, <1>3 DEF PInv

\* A reader's step keeps it: what is stored stays as it is.
LEMMA ReadersStep ==
    ASSUME PInv, (\E path \in Paths : Visit(path)) \/ WriteCursorError \/ ResolveWatermark \/ ReadPage
    PROVE  PInv'
<1>1. Kept /\ Distinct /\ Stamped /\ Faithful(walk, rows)
    BY DEF PInv
<1>2. UNCHANGED <<store, list, now, rows, batch, stamps>>
    BY DEF Visit, WriteCursorError, ResolveWatermark, ReadPage
<1>3. Faithful(walk', rows)
    BY <1>1, VisitIsFaithful, WriteCursorErrorIsFaithful, ResolveWatermarkIsFaithful,
       ReadPageIsFaithful
<1>4. Faithful(walk, rows)'
    <2>1. rows' = rows /\ store' = store /\ list' = list
        BY <1>2
    <2>2. Faithful(walk', rows')
        BY <1>3, <2>1
    <2> QED
        BY <2>1, <2>2, ReadingGoesOn
<1> QED
    BY <1>1, <1>2, <1>4, StorageStays DEF PInv

\* A writer's step keeps it: rows are only added.
LEMMA WritersStep ==
    ASSUME PInv, NEW w \in Writers, Receive(w) \/ Stamp(w) \/ Show(w) \/ Fail(w)
    PROVE  PInv'
<1>1. Kept /\ Distinct /\ Stamped /\ Faithful(walk, rows)
    BY DEF PInv
<1>2. store' = store /\ list' = list /\ walk' = walk /\ rows \subseteq rows'
    BY DEF Receive, Stamp, Show, Fail
<1>3. Faithful(walk', rows')
    BY <1>1, <1>2, MoreRows
<1>4. Faithful(walk, rows)'
    BY <1>2, <1>3, ReadingGoesOn
<1>5. Kept' /\ Distinct' /\ Stamped'
    BY <1>1, ReceiveIsKept, StampIsKept, ShowIsKept, FailIsKept
<1> QED
    BY <1>4, <1>5 DEF PInv

\* Time passes.
LEMMA TimesStep ==
    ASSUME PInv, Tick
    PROVE  PInv'
<1>1. Kept /\ Distinct /\ Stamped /\ Faithful(walk, rows)
    BY DEF PInv
<1>2. UNCHANGED <<store, list, rows, batch, stamps, walk>> /\ now' = now + 1
    BY DEF Tick
<1>3. Kept'
    BY <1>1, <1>2 DEF Kept, StoredRows, Paths, Stores, Lists
<1>4. Distinct' /\ Stamped'
    BY <1>1, <1>2 DEF Distinct, Stamped
<1>5. Faithful(walk', rows')
    BY <1>1, <1>2
<1>6. Faithful(walk, rows)'
    BY <1>2, <1>5, ReadingGoesOn
<1> QED
    BY <1>3, <1>4, <1>6 DEF PInv

\* Nothing happens, or nothing that has to do with the lists.
LEMMA OthersStep ==
    ASSUME PInv, UNCHANGED vars
    PROVE  PInv'
<1>1. Kept /\ Distinct /\ Stamped /\ Faithful(walk, rows)
    BY DEF PInv
<1>2. UNCHANGED <<store, list, now, rows, batch, stamps>> /\ walk' = walk
    BY DEF vars
<1>3. Faithful(walk', rows')
    BY <1>1, <1>2
<1>4. Faithful(walk, rows)'
    BY <1>2, <1>3, ReadingGoesOn
<1> QED
    BY <1>1, <1>2, <1>4, StorageStays DEF PInv

\* Every step keeps it.
LEMMA PagesGoOnStep ==
    ASSUME PInv, [ReadNext]_<<vars, avars>>
    PROVE  PInv'
<1>1. CASE Next
    BY <1>1, ReadersStep, WritersStep, TimesStep DEF Next
<1>2. CASE \E w \in Writers : Receive(w) \/ Show(w) \/ Fail(w)
    BY <1>2, WritersStep
<1>3. CASE UNCHANGED vars
    BY <1>3, OthersStep
<1> QED
    BY <1>1, <1>2, <1>3 DEF ReadNext

\* What is stored and what the followed reader has seen and holds is, in
\* every state, as the invariant says.
THEOREM PagesInvariance == ReadSpec => []PInv
<1>1. ReadInit => PInv
    BY PagesBegin
<1>2. PInv /\ [ReadNext]_<<vars, avars>> => PInv'
    BY PagesGoOnStep
<1> QED
    BY <1>1, <1>2, PTL DEF ReadSpec

\* A reader that goes on to the last page has been shown every row that was
\* there when it began (ListBySession, List, HistoryByStream).
THEOREM NothingIsSkipped == ReadSpec => []NothingSkipped
<1>1. PInv => NothingSkipped
    BY DEF PInv, Faithful, Ending, NothingSkipped, Seen
<1> QED
    BY <1>1, PagesInvariance, PTL

\* No row is shown twice and none of another list, and the pages continue the
\* order of the store.
THEOREM PagesGoOn == ReadSpec => []PagesContinue
<1>1. PInv => PagesContinue
    BY DEF PInv, Faithful, InSequence, PagesContinue
<1> QED
    BY <1>1, PagesInvariance, PTL

\* The events of a session in Postgres are those of one moment
\* (resolveWatermark; ADR-0006).
THEOREM OneMoment == ReadSpec => []OfOneMoment
<1>1. PInv => OfOneMoment
    BY DEF PInv, Faithful, Watermarks, OfOneMoment, Seen
<1> QED
    BY <1>1, PagesInvariance, PTL(***************************************************************************)
(* The link of an analysis                                                 *)
(***************************************************************************)

Stages == {"idle", "calling", "looking", "answered"}

Links == [status : {"none", "detached", "not_found_detached", "conflict_detached", "linked"},
          project : Projects \cup {None}, sid : Nat \cup {None}, cid : Nat \cup {None}]

Jobs == [stage : Stages, req : Requests, status : Nat, age : Nat, link : Links, broken : BOOLEAN,
         known : BOOLEAN]

\* What a link says of the session it names is true of the store.
TrueLink(r, l) ==
    l.status = "linked" =>
        \E x \in Named(r) : /\ x.id = l.sid /\ x.path[1] = l.project
                            /\ l.cid \in {None, CorrelationID(x)}

\* A conflict is one between what the request names, not one of the moment.
TrueConflict(r, l) ==
    l.status = "conflict_detached" =>
        /\ r.cid # None /\ r.sid # None /\ r.cid # r.sid
        /\ GetByCorrelationID(r.token, r.cid) # {}

LinkInv ==
    /\ job \in Jobs
    /\ job.stage # "answered" => job.link = NoLink /\ ~job.broken
    /\ job.known => WantsLink(job.req) /\ Named(job.req) # {}
    /\ job.stage = "answered" =>
          /\ TrueLink(job.req, job.link) /\ TrueConflict(job.req, job.link)
          /\ job.known /\ job.link # NoLink /\ ~job.broken => job.link.status = "linked"

\* A session has the correlation id that is asked for only if it is its id.
LEMMA CorrelationIsIdentity ==
    ASSUME NEW x, NEW c, c # None, CorrelationID(x) = c
    PROVE  x.id = c
BY DEF CorrelationID

\* What the look-up finds out, whatever the request and the store.
LEMMA LookUpFinds ==
    ASSUME rows \subseteq StoredRows, NEW r \in Requests, NEW broken \in BOOLEAN
    PROVE  LET l == ResolveSessionLink(r, broken) IN
           /\ l \in Links /\ TrueLink(r, l) /\ TrueConflict(r, l)
           /\ WantsLink(r) /\ Named(r) # {} /\ ~broken => l.status = "linked"
<1> DEFINE l == ResolveSessionLink(r, broken)
<1>1. /\ r.token \in Projects \cup {None} /\ r.cid \in Nat \cup {None} /\ r.sid \in Nat \cup {None}
    BY DEF Requests, Ids
<1>2. \A x \in rows : x.id \in Nat /\ CorrelationID(x) \in Nat \cup {None}
    BY DEF StoredRows, CorrelationID
<1>3. CASE ~WantsLink(r)
    <2>1. l = Link("detached", None, None, None)
        BY <1>3 DEF ResolveSessionLink, WantsLink
    <2> HIDE DEF l
    <2> QED
        BY <1>3, <2>1 DEF Link, Links, TrueLink, TrueConflict, l
<1>4. CASE WantsLink(r) /\ broken
    <2>1. l = Link("not_found_detached", None, None, None)
        BY <1>4 DEF ResolveSessionLink
    <2> HIDE DEF l
    <2>2. l \in Links /\ TrueLink(r, l) /\ TrueConflict(r, l)
        BY <2>1 DEF Link, Links, TrueLink, TrueConflict
    <2>3. ~ ~broken
        BY <1>4
    <2> QED
        BY <2>2, <2>3, Zenon DEF l
<1>5. CASE WantsLink(r) /\ ~broken /\ r.cid # None
    <2> DEFINE found == GetByCorrelationID(r.token, r.cid)
               x == CHOOSE x \in found : TRUE
    <2>1. l = ResolveByCorrelationID(r)
        BY <1>5 DEF ResolveSessionLink
    <2>2. Named(r) = {y \in found : r.sid # None => y.id = r.sid}
        BY <1>5 DEF Named, GetByCorrelationID
    <2>3. \A y \in found : y.id = r.cid /\ y \in rows /\ y.path = <<r.token, None>> /\ CorrelationID(y) = r.cid
        BY <1>5, CorrelationIsIdentity DEF GetByCorrelationID
    <2>4. CASE found = {}
        <3>1. l = Link("not_found_detached", None, None, None)
            BY <2>1, <2>4 DEF ResolveByCorrelationID
        <3>2. Named(r) = {}
            BY <2>2, <2>4
        <3> HIDE DEF l
        <3> QED
            BY <3>1, <3>2 DEF Link, Links, TrueLink, TrueConflict, l
    <2>5. CASE found # {} /\ r.sid \in {None, x.id}
        <3>1. x \in found
            BY <2>5
        <3>2. l = Link("linked", x.path[1], x.id, CorrelationID(x))
            BY <2>1, <2>5 DEF ResolveByCorrelationID
        <3> HIDE DEF l, x, found
        <3>3. x \in Named(r) /\ x \in rows /\ x.path[1] = r.token
            BY <2>2, <2>3, <2>5, <3>1
        <3> QED
            BY <1>1, <1>2, <3>2, <3>3 DEF Link, Links, TrueLink, TrueConflict, l
    <2>6. CASE found # {} /\ r.sid \notin {None, x.id}
        <3>1. x \in found
            BY <2>6
        <3>2. l = Link("conflict_detached", None, None, None)
            BY <2>1, <2>6 DEF ResolveByCorrelationID
        <3>3. x.id = r.cid /\ r.sid # None /\ r.sid # r.cid
            BY <2>3, <2>6, <3>1
        <3>4. Named(r) = {}
            BY <2>2, <2>3, <3>3
        <3> HIDE DEF l, x
        <3> QED
            BY <1>5, <2>6, <3>2, <3>3, <3>4 DEF Link, Links, TrueLink, TrueConflict, l
    <2> QED
        BY <2>4, <2>5, <2>6
<1>6. CASE WantsLink(r) /\ ~broken /\ r.cid = None
    <2> DEFINE found == Get(r.token, r.sid)
               x == CHOOSE x \in found : TRUE
    <2>1. l = ResolveBySessionID(r)
        BY <1>6 DEF ResolveSessionLink
    <2>2. Named(r) = found /\ \A y \in found : y.id = r.sid /\ y \in rows /\ y.path = <<r.token, None>>
        BY <1>6 DEF Named, Get, WantsLink
    <2>3. CASE found = {}
        <3>1. l = Link("not_found_detached", None, None, None)
            BY <2>1, <2>3 DEF ResolveBySessionID
        <3> HIDE DEF l
        <3> QED
            BY <2>2, <2>3, <3>1 DEF Link, Links, TrueLink, TrueConflict, l
    <2>4. CASE found # {}
        <3>1. x \in found
            BY <2>4
        <3>2. l = Link("linked", x.path[1], x.id, CorrelationID(x))
            BY <2>1, <2>4 DEF ResolveBySessionID
        <3> HIDE DEF l, x, found
        <3>3. x \in Named(r) /\ x \in rows /\ x.path[1] = r.token
            BY <2>2, <3>1
        <3> QED
            BY <1>1, <1>2, <3>2, <3>3 DEF Link, Links, TrueLink, TrueConflict, l
    <2> QED
        BY <2>3, <2>4
<1> QED
    BY <1>3, <1>4, <1>5, <1>6

\* What is true of an answer stays true when sessions are added.
LEMMA AnswersStayTrue ==
    ASSUME LinkInv, rows \subseteq rows', UNCHANGED avars
    PROVE  LinkInv'
<1>1. job' = job /\ unnamed' = unnamed
    BY DEF avars
<1>2. ASSUME NEW r PROVE Named(r) \subseteq Named(r)'
    BY <1>1 DEF Named, CorrelationID
<1>3. ASSUME NEW p, NEW c PROVE GetByCorrelationID(p, c) \subseteq GetByCorrelationID(p, c)'
    BY <1>1 DEF GetByCorrelationID, CorrelationID
<1>4. ASSUME NEW r, NEW l, TrueLink(r, l) PROVE TrueLink(r, l)'
    BY <1>1, <1>2, <1>4 DEF TrueLink, CorrelationID
<1>5. ASSUME NEW r, NEW l, TrueConflict(r, l) PROVE TrueConflict(r, l)'
    BY <1>3, <1>5 DEF TrueConflict
<1> QED
    BY <1>1, <1>2, <1>4, <1>5 DEF LinkInv, WantsLink

\* The steps of a request keep it.
LEMMA JobStep ==
    ASSUME rows \subseteq StoredRows, LinkInv, UNCHANGED vars,
           Wait \/ AnalyzeManifest \/ LookUp \/ Return \/ \E r \in Requests : ServeHTTP(r)
    PROVE  LinkInv'
<1>1. rows' = rows /\ unnamed' = unnamed
    BY DEF vars, Wait, AnalyzeManifest, LookUp, Return, ServeHTTP
<1>2. ASSUME NEW r PROVE Named(r)' = Named(r)
    BY <1>1 DEF Named, CorrelationID
<1>3. ASSUME NEW r, NEW l
      PROVE  (TrueLink(r, l)' <=> TrueLink(r, l)) /\ (TrueConflict(r, l)' <=> TrueConflict(r, l))
    BY <1>1, <1>2 DEF TrueLink, TrueConflict, GetByCorrelationID, CorrelationID
<1>4. NoLink \in Links /\ NoLink.status = "none"
    BY DEF NoLink, Link, Links
<1>5. \A r : TrueLink(r, NoLink) /\ TrueConflict(r, NoLink)
    BY <1>4 DEF TrueLink, TrueConflict
<1>6. job \in Jobs
    BY DEF LinkInv
<1>7. CASE Wait
    <2>1. job' = [job EXCEPT !.age = @ + 1] /\ job.stage = "calling"
        BY <1>7 DEF Wait
    <2>2. /\ job' \in Jobs /\ job'.stage = "calling" /\ job'.link = job.link
          /\ job'.broken = job.broken /\ job'.known = job.known /\ job'.req = job.req
        BY <1>6, <2>1 DEF Jobs, Stages
    <2> QED
        BY <1>2, <2>1, <2>2 DEF LinkInv, WantsLink, Jobs, Links, Requests
<1>8. CASE AnalyzeManifest
    <2>1. PICK answer : job' = IF answer = "ok" THEN [job EXCEPT !.stage = "looking"]
                ELSE [job EXCEPT !.stage = "answered", !.status = MapAndWriteUseCaseError(answer)]
        BY <1>8 DEF AnalyzeManifest
    <2>2. job.stage = "calling" /\ MapAndWriteUseCaseError(answer) \in Nat
        <3>1. DomainHTTPStatus(answer) \in Nat
            <4>1. DomainHTTPStatus(answer) \in {400, 422, 502}
                BY DEF DomainHTTPStatus
            <4> QED
                BY <4>1
        <3>2. MapAndWriteUseCaseError(answer) \in Nat
            BY <3>1 DEF MapAndWriteUseCaseError
        <3>3. job.stage = "calling"
            BY <1>8 DEF AnalyzeManifest
        <3> QED
            BY <3>2, <3>3
    <2>3. /\ job' \in Jobs /\ job'.stage \in {"looking", "answered"} /\ job'.link = job.link
          /\ job'.broken = job.broken /\ job'.known = job.known /\ job'.req = job.req
        BY <1>6, <2>1, <2>2 DEF Jobs, Stages
    <2>4. job.link = NoLink
        BY <2>2 DEF LinkInv
    <2> QED
        BY <1>2, <1>3, <1>5, <2>2, <2>3, <2>4 DEF LinkInv, WantsLink, Jobs, Links, Requests
<1>9. CASE LookUp
    <2>1. PICK broken \in BOOLEAN :
            job' = [job EXCEPT !.stage = "answered", !.broken = broken,
                               !.link = ResolveSessionLink(job.req, broken)]
        BY <1>9 DEF LookUp
    <2> DEFINE l == ResolveSessionLink(job.req, broken)
    <2>2. job.req \in Requests
        BY <1>6 DEF Jobs
    <2>3. /\ l \in Links /\ TrueLink(job.req, l) /\ TrueConflict(job.req, l)
          /\ WantsLink(job.req) /\ Named(job.req) # {} /\ ~broken => l.status = "linked"
        BY <2>2, LookUpFinds
    <2> HIDE DEF l
    <2>4. /\ job' \in Jobs /\ job'.stage = "answered" /\ job'.link = l
          /\ job'.broken = broken /\ job'.known = job.known /\ job'.req = job.req
        BY <1>6, <2>1, <2>3 DEF Jobs, Stages, l
    <2> QED
        BY <1>2, <1>3, <2>3, <2>4 DEF LinkInv, WantsLink, Jobs, Links, Requests
<1>10. CASE Return
    <2>1. job' = NoJob
        BY <1>10 DEF Return
    <2>2. NoJob \in Jobs
        BY <1>4 DEF NoJob, Jobs, Stages, Requests, Forms, RefusedForms
    <2> QED
        BY <2>1, <2>2 DEF LinkInv, NoJob
<1>11. ASSUME NEW r \in Requests, ServeHTTP(r)
       PROVE  LinkInv'
    <2> DEFINE checks == {PayloadToRequest(r), ResolveProjectForLinkedRequest(r)} \ {200}
               status == IF checks # {} THEN CHOOSE s \in checks : TRUE
                         ELSE IF r.form = "blank" THEN 400 ELSE 200
    <2>1. job' = [stage |-> IF status = 200 THEN "calling" ELSE "answered", req |-> r,
                  status |-> status, age |-> 0, link |-> NoLink, broken |-> FALSE,
                  known |-> WantsLink(r) /\ Named(r) # {}]
        BY <1>11 DEF ServeHTTP
    <2>2. status \in Nat
        <3>1. PayloadToRequest(r) \in Nat
            BY DEF PayloadToRequest, RefusedForms
        <3>2. ResolveProjectForLinkedRequest(r) \in Nat
            BY DEF ResolveProjectForLinkedRequest
        <3> QED
            BY <3>1, <3>2
    <2> HIDE DEF status
    <2>3. job' \in Jobs
        BY <1>4, <2>1, <2>2 DEF Jobs, Stages, WantsLink
    <2>4. /\ job'.link = NoLink /\ job'.broken = FALSE /\ job'.req = r
          /\ job'.known <=> WantsLink(r) /\ Named(r) # {}
        BY <2>1
    <2> QED
        BY <1>2, <1>3, <1>5, <2>3, <2>4 DEF LinkInv, WantsLink, Jobs, Links, Requests
<1> QED
    BY <1>7, <1>8, <1>9, <1>10, <1>11

\* An answer that links the analysis with a session is true of the store,
\* then and later, and a session that was there when the request came is
\* linked, unless the store fails (resolveSessionLink, status matrix).
THEOREM LinksAreTrue == ReadSpec => []LinkIsTrue
<1>1. ReadInit => LinkInv
    <2> SUFFICES ASSUME ReadInit PROVE LinkInv
        OBVIOUS
    <2>1. job = NoJob
        BY DEF ReadInit
    <2>2. NoJob \in Jobs
        BY DEF NoJob, NoLink, Link, Links, Jobs, Stages, Requests, Forms, RefusedForms
    <2> QED
        BY <2>1, <2>2 DEF LinkInv, NoJob
<1>2. PInv /\ LinkInv /\ [ReadNext]_<<vars, avars>> => LinkInv'
    <2> SUFFICES ASSUME PInv, LinkInv, [ReadNext]_<<vars, avars>> PROVE LinkInv'
        OBVIOUS
    <2>1. rows \subseteq StoredRows
        BY DEF PInv, Kept
    <2>2. CASE UNCHANGED <<vars, avars>>
        BY <2>2, AnswersStayTrue DEF vars
    <2>3. CASE Next /\ UNCHANGED avars
        <3>1. rows \subseteq rows'
            BY <2>3 DEF Next, Visit, WriteCursorError, ResolveWatermark, ReadPage, Receive, Stamp,
                        Show, Fail, Tick
        <3> QED
            BY <2>3, <3>1, AnswersStayTrue
    <2>4. CASE (\E w \in Writers : Receive(w) \/ Show(w) \/ Fail(w)) /\ UNCHANGED avars
        <3>1. rows \subseteq rows'
            BY <2>4 DEF Receive, Show, Fail
        <3> QED
            BY <2>4, <3>1, AnswersStayTrue
    <2>5. CASE /\ Wait \/ AnalyzeManifest \/ LookUp \/ Return \/ \E r \in Requests : ServeHTTP(r)
               /\ UNCHANGED vars
        BY <2>1, <2>5, JobStep
    <2> QED
        BY <2>2, <2>3, <2>4, <2>5 DEF ReadNext
<1>3. LinkInv => LinkIsTrue
    <2> SUFFICES ASSUME LinkInv, job.stage = "answered" PROVE LinkIsTrue
        BY DEF LinkIsTrue
    <2>1. job.link.status = "conflict_detached" => Named(job.req) = {}
        <3> SUFFICES ASSUME job.link.status = "conflict_detached", NEW x \in Named(job.req)
                     PROVE  FALSE
            OBVIOUS
        <3>1. job.req.cid # None /\ job.req.sid # None /\ job.req.cid # job.req.sid
            BY DEF LinkInv, TrueConflict
        <3>2. CorrelationID(x) = job.req.cid /\ x.id = job.req.sid
            BY <3>1 DEF Named
        <3> QED
            BY <3>1, <3>2, CorrelationIsIdentity
    <2> QED
        BY <2>1 DEF LinkIsTrue, LinkInv, TrueLink, TrueConflict
<1> QED
    BY <1>1, <1>2, <1>3, PagesInvariance, PTL DEF ReadSpec(***************************************************************************)
(* Types                                                                   *)
(***************************************************************************)

Everything == rows \cup UNION {batch[w] : w \in Writers}

\* What an instance's bounds leave, but for the number of commits.
Bounded ==
    /\ now \in Times
    /\ \A x \in Everything : x.id \in Ids /\ x.at \in Times
    /\ walk.token # None =>
          /\ walk.token.v \in 1 .. 4 /\ walk.token.path \in Paths /\ walk.token.id \in Ids
          /\ walk.token.at \in Times /\ walk.token.wm \in 0 .. stamps \cup {None}
    /\ walk.w \in 0 .. stamps \cup {None} /\ walk.mark \in 0 .. stamps \cup {None}

\* No timestamp of a commit is lost: a transaction that has got one becomes visible.
Given == \A n \in 1 .. stamps : \E x \in Everything : x.stamp = n

\* What is stored or under way.
LEMMA EverythingIsKept ==
    ASSUME Kept, Distinct
    PROVE  /\ \A x \in Everything : x \in StoredRows
           /\ \A x, y \in Everything : x.id = y.id => x = y
<1>1. \A x \in Everything : x \in rows \/ \E w \in Writers : x \in batch[w]
    BY DEF Everything
<1> QED
    BY <1>1 DEF Kept, Distinct

\* There are no more commits than rows, and no more rows than ids.
LEMMA Counted ==
    ASSUME Kept, Distinct, Bounded, Given
    PROVE  stamps <= MaxRows /\ Cardinality(rows) <= MaxRows
<1>1. MaxRows \in Nat /\ IsFiniteSet(Ids) /\ Cardinality(Ids) = MaxRows
    <2>1. MaxRows \in Nat
        BY PagesConstants
    <2> QED
        BY <2>1, FS_Interval DEF Ids
<1>2. stamps \in Nat
    BY DEF Kept
<1>3. stamps <= MaxRows
    <2> DEFINE row(n) == CHOOSE x \in Everything : x.stamp = n
               f == [n \in 1 .. stamps |-> row(n).id]
    <2>1. \A n \in 1 .. stamps : row(n) \in Everything /\ row(n).stamp = n
        BY DEF Given
    <2>2. \A n \in 1 .. stamps : row(n).id \in Ids
        BY <2>1 DEF Bounded
    <2>3. \A m, n \in 1 .. stamps : row(m).id = row(n).id => m = n
        <3> SUFFICES ASSUME NEW m \in 1 .. stamps, NEW n \in 1 .. stamps, row(m).id = row(n).id
                     PROVE  m = n
            OBVIOUS
        <3> HIDE DEF row
        <3>1. row(m) = row(n)
            BY <2>1, EverythingIsKept
        <3> QED
            BY <2>1, <3>1
    <2> HIDE DEF row
    <2>4. f \in Injection(1 .. stamps, Ids)
        BY <2>2, <2>3 DEF Injection, IsInjective
    <2>5. IsFiniteSet(1 .. stamps) /\ Cardinality(1 .. stamps) = stamps
        BY <1>2, FS_Interval
    <2> HIDE DEF f
    <2>6. Cardinality(1 .. stamps) <= Cardinality(Ids)
        BY <1>1, <2>4, <2>5, FS_Injection
    <2> QED
        BY <1>1, <2>5, <2>6
<1>4. Cardinality(rows) <= MaxRows
    <2> DEFINE f == [x \in rows |-> x.id]
    <2>1. \A x \in rows : x.id \in Ids
        BY DEF Bounded, Everything
    <2>2. f \in Injection(rows, Ids)
        BY <2>1 DEF Distinct, Injection, IsInjective
    <2> HIDE DEF f
    <2> QED
        BY <1>1, <2>2, FS_Injection DEF Kept
<1> QED
    BY <1>3, <1>4

\* The bounds hold in the beginning.
LEMMA BoundedInit ==
    ASSUME ReadInit
    PROVE  Bounded /\ Given
<1>1. /\ now = 0 /\ stamps = 0 /\ batch = [w \in Writers |-> {}]
      /\ walk.token = None /\ walk.w = None /\ walk.mark = None
    BY DEF ReadInit, Init, AnalysisInit, Reading
<1>2. MaxTime \in Nat /\ MaxRows \in Nat \ {0}
    BY PagesConstants
<1>3. \A x \in rows : x.id = 1 /\ x.at = 0
    BY DEF ReadInit, Init, AnalysisInit
<1>4. \A x \in Everything : x \in rows
    BY <1>1 DEF Everything
<1> QED
    BY <1>1, <1>2, <1>3, <1>4 DEF Bounded, Given, Times, Ids

\* A reader goes on within the bounds.
LEMMA BoundedReads ==
    ASSUME PInv, Bounded, Given,
           (\E path \in Paths : Visit(path)) \/ WriteCursorError \/ ResolveWatermark \/ ReadPage
    PROVE  Bounded' /\ Given'
<1>1. UNCHANGED <<store, list, now, rows, batch, stamps>>
    BY DEF Visit, WriteCursorError, ResolveWatermark, ReadPage
<1>2. Given' /\ Everything' = Everything /\ Paths' = Paths
    BY <1>1 DEF Given, Everything, Paths
<1>3. stamps \in Nat /\ walk.path \in Paths
    BY DEF PInv, Kept, Faithful, Readings
<1> DEFINE Fits(t) == /\ t.v \in 1 .. 4 /\ t.path \in Paths /\ t.id \in Ids
                      /\ t.at \in Times /\ t.wm \in 0 .. stamps \cup {None}
           Mark(m) == m \in 0 .. stamps \cup {None}
<1>4. walk.token # None => Fits(walk.token)
    BY DEF Bounded
<1>5. SUFFICES (walk'.token # None => Fits(walk'.token)) /\ Mark(walk'.w) /\ Mark(walk'.mark)
    BY <1>1, <1>2 DEF Bounded
<1>6. CASE \E path \in Paths : Visit(path)
    <2>1. PICK path \in Paths, v \in 2 .. 4 :
            walk' = Reading(path, IF walk.token = None THEN None ELSE [walk.token EXCEPT !.v = v])
        BY <1>6 DEF Visit
    <2>2. walk.token \in Places \cup {None}
        BY DEF PInv, Faithful, Readings
    <2>3. walk'.w = None /\ walk'.mark = None
        BY <2>1 DEF Reading
    <2>4. walk'.token = IF walk.token = None THEN None ELSE [walk.token EXCEPT !.v = v]
        BY <2>1 DEF Reading
    <2>5. walk.token # None => Fits([walk.token EXCEPT !.v = v])
        BY <1>4, <2>2 DEF Places
    <2> QED
        BY <2>3, <2>4, <2>5
<1>7. CASE WriteCursorError
    BY <1>7 DEF WriteCursorError, Reading
<1>8. CASE ResolveWatermark
    <2> DEFINE w == IF walk.token # None /\ walk.token.wm # None THEN walk.token.wm ELSE stamps
    <2>1. walk' = [walk EXCEPT !.w = w, !.mark = IF @ = None THEN w ELSE @]
        BY <1>8 DEF ResolveWatermark
    <2>2. Mark(w) /\ Mark(walk.mark)
        BY <1>3, <1>4 DEF Bounded
    <2> HIDE DEF w
    <2>3. walk'.w = w /\ walk'.mark \in {w, walk.mark} /\ walk'.token = walk.token
        BY <2>1 DEF PInv, Faithful, Readings
    <2> QED
        BY <1>4, <2>2, <2>3
<1>9. CASE ReadPage
    <2>1. walk'.w = None /\ walk'.mark = walk.mark /\ walk'.path = walk.path
        BY <1>9 DEF ReadPage, PInv, Faithful, Readings
    <2>2. walk'.token = None \/ \E l : walk'.token = EncodeCursor(l, walk.path)
        BY <1>9 DEF ReadPage, PInv, Faithful, Readings
    <2>3. ASSUME NEW l, walk'.token = EncodeCursor(l, walk.path), walk'.token # None
          PROVE  Fits(walk'.token)
        <3>1. Faithful(walk', rows)
            BY <1>9, ReadPageIsFaithful DEF PInv
        <3>2. Taken(walk')
            BY <2>1, <2>3, TokensFate DEF EncodeCursor
        <3>3. PICK r \in rows : walk'.token.at = r.at /\ walk'.token.id = r.id
            BY <3>1, <3>2 DEF Faithful, GoingOn, Readings
        <3>4. r.id \in Ids /\ r.at \in Times
            BY DEF Bounded, Everything
        <3>5. walk'.token.v = 3 /\ walk'.token.path = walk.path /\ walk'.token.wm \in {walk.w, None}
            BY <2>3 DEF EncodeCursor
        <3> QED
            BY <1>3, <3>3, <3>4, <3>5 DEF Bounded
    <2> QED
        BY <2>1, <2>2, <2>3 DEF Bounded
<1> QED
    BY <1>6, <1>7, <1>8, <1>9

\* Writers write within the bounds, and no timestamp is lost.
LEMMA BoundedWrites ==
    ASSUME PInv, Bounded, Given, NEW w \in Writers, Receive(w) \/ Stamp(w) \/ Show(w) \/ Fail(w)
    PROVE  Bounded' /\ Given'
<1>1. list' = list /\ now' = now /\ walk' = walk
    BY DEF Receive, Stamp, Show, Fail
<1>2. stamps \in Nat /\ stamps' \in Nat /\ stamps <= stamps'
    BY DEF PInv, Kept, Stamp, Receive, Show, Fail
<1>3. batch \in [Writers -> SUBSET StoredRows]
    BY DEF PInv, Kept
<1>4. SUFFICES (\A x \in Everything' : x.id \in Ids /\ x.at \in Times) /\ Given'
    <2>1. \A m : m \in 0 .. stamps \cup {None} => m \in 0 .. stamps' \cup {None}
        BY <1>2
    <2>2. Paths' = Paths
        BY <1>1 DEF Paths
    <2> QED
        BY <1>1, <2>1, <2>2 DEF Bounded
<1>5. CASE Receive(w)
    <2>1. PICK path \in Paths, ids \in SUBSET (Ids \ Used), seq \in {None, 1} :
            batch' = [batch EXCEPT ![w] =
                {[path |-> path, at |-> now, id |-> i, stamp |-> 0,
                  seq |-> IF list = "events" /\ \E j \in ids : j < i THEN 2 ELSE seq] : i \in ids}]
        BY <1>5, ZenonT(40) DEF Receive
    <2>2. \A x \in batch'[w] : x.id \in Ids /\ x.at = now
        BY <1>3, <2>1
    <2>3. batch[w] = {} /\ rows' = rows /\ stamps' = stamps
        BY <1>5 DEF Receive
    <2>4. \A v \in Writers : v # w => batch'[v] = batch[v]
        BY <1>3, <2>1
    <2>5. \A x \in Everything : x \in Everything'
        BY <2>3, <2>4 DEF Everything
    <2>6. \A x \in Everything' : x \in Everything \/ x \in batch'[w]
        BY <2>3, <2>4 DEF Everything
    <2> QED
        BY <2>2, <2>3, <2>5, <2>6 DEF Bounded, Given
<1>6. CASE Stamp(w)
    <2>1. /\ batch' = [batch EXCEPT ![w] = {[x EXCEPT !.stamp = stamps + 1] : x \in batch[w]}]
          /\ rows' = rows /\ stamps' = stamps + 1 /\ batch[w] # {}
        BY <1>3, <1>6 DEF Stamp
    <2>2. \A x \in batch[w] : x.stamp = 0
        BY <1>6 DEF Stamp
    <2>3. /\ batch'[w] = {[x EXCEPT !.stamp = stamps + 1] : x \in batch[w]}
          /\ \A v \in Writers : v # w => batch'[v] = batch[v]
        BY <1>3, <2>1
    <2>4. \A x \in batch[w] : /\ x \in StoredRows
                              /\ [x EXCEPT !.stamp = stamps + 1].id = x.id
                              /\ [x EXCEPT !.stamp = stamps + 1].at = x.at
                              /\ [x EXCEPT !.stamp = stamps + 1].stamp = stamps + 1
        BY <1>3 DEF StoredRows
    <2>5. \A y \in batch'[w] : \E x \in batch[w] : y.id = x.id /\ y.at = x.at
        BY <2>3, <2>4
    <2>6. \A x \in Everything' : \E y \in Everything : x.id = y.id /\ x.at = y.at
        BY <2>1, <2>3, <2>5 DEF Everything
    <2>7. ASSUME NEW n \in 1 .. stamps + 1
          PROVE  \E x \in Everything' : x.stamp = n
        <3>1. CASE n = stamps + 1
            <4>1. PICK x \in batch[w] : TRUE
                BY <2>1
            <4> DEFINE y == [x EXCEPT !.stamp = stamps + 1]
            <4>2. y \in batch'[w]
                BY <2>3
            <4>3. y.stamp = n
                BY <2>4, <3>1
            <4> QED
                BY <4>2, <4>3 DEF Everything
        <3>2. CASE n \in 1 .. stamps
            <4>1. PICK x \in Everything : x.stamp = n
                BY <3>2 DEF Given
            <4>2. x \notin batch[w]
                BY <2>2, <3>2, <4>1
            <4>3. x \in Everything'
                BY <2>1, <2>3, <4>1, <4>2 DEF Everything
            <4> QED
                BY <4>1, <4>3
        <3> QED
            BY <1>2, <3>1, <3>2
    <2> QED
        BY <2>1, <2>6, <2>7 DEF Bounded, Given
<1>7. CASE Show(w)
    <2>1. /\ rows' = rows \cup batch[w] /\ stamps' = stamps
          /\ batch' = [batch EXCEPT ![w] = {}]
        BY <1>7 DEF Show
    <2>2. batch'[w] = {} /\ \A v \in Writers : v # w => batch'[v] = batch[v]
        BY <1>3, <2>1
    <2>3. \A x : x \in Everything' <=> x \in Everything
        BY <2>1, <2>2 DEF Everything
    <2> QED
        BY <2>1, <2>3 DEF Bounded, Given
<1>8. CASE Fail(w)
    <2>1. /\ rows' = rows /\ stamps' = stamps /\ \A x \in batch[w] : x.stamp = 0
          /\ batch' = [batch EXCEPT ![w] = {}]
        BY <1>8 DEF Fail
    <2>2. batch'[w] = {} /\ \A v \in Writers : v # w => batch'[v] = batch[v]
        BY <1>3, <2>1
    <2>3. /\ \A x \in Everything' : x \in Everything
          /\ \A x \in Everything : x \in Everything' \/ x.stamp = 0
        BY <2>1, <2>2 DEF Everything
    <2> QED
        BY <1>2, <2>1, <2>3 DEF Bounded, Given
<1> QED
    BY <1>5, <1>6, <1>7, <1>8

\* Every variable of the lists keeps its type, and no instance runs out of ids
\* or of numbers of commits.
THEOREM TypeCorrect == ReadSpec => []TypeOK
<1>1. ReadInit => Bounded /\ Given
    BY BoundedInit
<1>2. PInv /\ Bounded /\ Given /\ [ReadNext]_<<vars, avars>> => Bounded' /\ Given'
    <2> SUFFICES ASSUME PInv, Bounded, Given, [ReadNext]_<<vars, avars>>
                 PROVE  Bounded' /\ Given'
        OBVIOUS
    <2>1. CASE Next
        <3>1. CASE Tick
            BY <3>1, PagesConstants DEF Tick, Bounded, Given, Everything, Times, Paths
        <3> QED
            BY <2>1, <3>1, BoundedReads, BoundedWrites DEF Next
    <2>2. CASE \E w \in Writers : Receive(w) \/ Show(w) \/ Fail(w)
        BY <2>2, BoundedWrites
    <2>3. CASE UNCHANGED vars
        BY <2>3 DEF vars, Bounded, Given, Everything, Paths
    <2> QED
        BY <2>1, <2>2, <2>3 DEF ReadNext
<1>3. PInv /\ Bounded /\ Given => TypeOK
    <2> SUFFICES ASSUME PInv, Bounded, Given PROVE TypeOK
        OBVIOUS
    <2>1. /\ Kept /\ Distinct /\ Stamped /\ walk \in Readings(rows)
          /\ stamps <= MaxRows /\ Cardinality(rows) <= MaxRows
        BY Counted DEF PInv, Faithful
    <2>2. stamps \in 0 .. MaxRows /\ \A m : m \in 0 .. stamps \cup {None} => m \in 0 .. MaxRows \cup {None}
        BY <2>1, PagesConstants DEF Kept
    <2>3. \A x \in Everything : x \in StoredRows /\ x.stamp <= stamps
        BY <2>1, EverythingIsKept DEF Stamped, Everything
    <2>4. \A x \in Everything : x \in Rows
        BY <2>1, <2>2, <2>3, PagesConstants DEF Bounded, StoredRows, Rows, Kept
    <2>5. rows \subseteq Rows /\ batch \in [Writers -> SUBSET Rows]
        BY <2>1, <2>4 DEF Everything, Kept
    <2>6. walk.token # None => walk.token \in Tokens
        <3> SUFFICES ASSUME walk.token # None PROVE walk.token \in Tokens
            OBVIOUS
        <3>1. walk.token \in Places
            BY <2>1 DEF Readings
        <3> QED
            BY <2>2, <3>1 DEF Bounded, Places, Tokens
    <2>7. walk \in Walks
        BY <2>1, <2>2, <2>6 DEF Bounded, Readings, Walks
    <2> QED
        BY <2>1, <2>2, <2>5, <2>7 DEF TypeOK, Bounded, Kept, Stores, Lists
<1> QED
    BY <1>1, <1>2, <1>3, PagesInvariance, PTL DEF ReadSpec
=============================================================================
