------------------------- MODULE TickPipelineProofs -------------------------
(***************************************************************************)
(* What racing loops do to the candle and to the history of a symbol, and  *)
(* what a browser's chart is like, for any number of loops and ticks, any  *)
(* candle length, history limit, prices and answers of the exchange.       *)
(***************************************************************************)
EXTENDS TickPipeline, SumTheorems, FiniteSetTheorems, TLAPS

-----------------------------------------------------------------------------
(* Greatest and least elements. *)

\* A finite set of numbers has a greatest element and a least one.
LEMMA FiniteBounds ==
    ASSUME NEW S, S \subseteq Int, S # {}, IsFiniteSet(S)
    PROVE  /\ \E x \in S : \A y \in S : x >= y
           /\ \E x \in S : \A y \in S : x <= y
<1> DEFINE G == {T \in SUBSET S : T = {} \/ /\ \E x \in T : \A y \in T : x >= y
                                            /\ \E x \in T : \A y \in T : x <= y}
<1>1. {} \in G
  OBVIOUS
<1>2. ASSUME NEW T \in SUBSET S, T \in G, NEW z \in S \ T PROVE T \cup {z} \in G
  <2>1. CASE T = {}
    BY <2>1
  <2>2. CASE T # {}
    <3>1. PICK a \in T, b \in T : \A y \in T : a >= y /\ b <= y
      BY <1>2, <2>2
    <3>2. \E x \in T \cup {z} : \A y \in T \cup {z} : x >= y
      <4>1. CASE z > a
        BY <3>1, <4>1
      <4>2. CASE ~(z > a)
        BY <3>1, <4>2
      <4> QED BY <4>1, <4>2
    <3>3. \E x \in T \cup {z} : \A y \in T \cup {z} : x <= y
      <4>1. CASE z < b
        BY <3>1, <4>1
      <4>2. CASE ~(z < b)
        BY <3>1, <4>2
      <4> QED BY <4>1, <4>2
    <3> QED BY <3>2, <3>3
  <2> QED BY <2>1, <2>2
<1>3. SUBSET S \subseteq G
  <2> HIDE DEF G
  <2> QED BY <1>1, <1>2, FiniteInduction
<1> QED
  BY <1>3

\* Max and Min are those elements.
LEMMA MaxMin ==
    ASSUME NEW S, S \subseteq Int, S # {}, IsFiniteSet(S)
    PROVE  /\ Max(S) \in S /\ \A y \in S : y <= Max(S)
           /\ Min(S) \in S /\ \A y \in S : Min(S) <= y
<1>1. PICK a \in S, b \in S : (\A y \in S : a >= y) /\ (\A y \in S : b <= y)
  BY FiniteBounds
<1>2. Max(S) \in S /\ \A y \in S : Max(S) >= y
  BY <1>1 DEF Max
<1>3. Min(S) \in S /\ \A y \in S : Min(S) <= y
  BY <1>1 DEF Min
<1> QED
  BY <1>2, <1>3

\* An element as great as any is the greatest.
LEMMA MaxIs ==
    ASSUME NEW S, S \subseteq Int, NEW x \in S, \A y \in S : y <= x
    PROVE  Max(S) = x
<1>0. \A y \in S : x >= y
  OBVIOUS
<1>1. Max(S) \in S /\ \A y \in S : Max(S) >= y
  BY <1>0 DEF Max
<1>2. PICK m \in S : m = Max(S)
  BY <1>1
<1> QED
  BY <1>0, <1>1, <1>2

\* An element as small as any is the least.
LEMMA MinIs ==
    ASSUME NEW S, S \subseteq Int, NEW x \in S, \A y \in S : x <= y
    PROVE  Min(S) = x
<1>0. \A y \in S : x <= y
  OBVIOUS
<1>1. Min(S) \in S /\ \A y \in S : Min(S) <= y
  BY <1>0 DEF Min
<1>2. PICK m \in S : m = Min(S)
  BY <1>1
<1> QED
  BY <1>0, <1>1, <1>2

\* The bounds of a single element.
LEMMA SingleBounds == \A x \in Nat : Max({x}) = x /\ Min({x}) = x
<1> SUFFICES ASSUME NEW x \in Nat PROVE Max({x}) = x /\ Min({x}) = x
  OBVIOUS
<1>1. PICK S : S = {x}
  OBVIOUS
<1>2. S \subseteq Int /\ x \in S /\ (\A y \in S : y <= x) /\ (\A y \in S : x <= y)
  BY <1>1
<1>3. Max(S) = x /\ Min(S) = x
  BY ONLY <1>2, MaxIs, MinIs
<1> QED
  BY <1>1, <1>3

-----------------------------------------------------------------------------
(* Intervals of time. *)

\* A time aligned is the start of an interval.
LEMMA Aligned ==
    ASSUME NEW ts \in Int
    PROVE  /\ AlignTime(ts) \in Int
           /\ AlignTime(ts) = ts - (ts % Interval)
           /\ \E q \in Int : AlignTime(ts) = q * Interval
<1>1. PICK n \in Nat \ {0} : n = Interval
  BY CandleAssumption
<1>2. /\ ts \div n \in Int /\ ts % n \in 0 .. n - 1
      /\ ts = n * (ts \div n) + (ts % n)
  BY <1>1
<1>3. n * (ts \div n) = (ts \div n) * n /\ (ts \div n) * n \in Int
  BY <1>2
<1> QED
  BY <1>1, <1>2, <1>3 DEF AlignTime

\* The start of an interval leaves no remainder.
LEMMA NoRemainder ==
    ASSUME NEW q \in Int
    PROVE  (q * Interval) % Interval = 0
<1>1. PICK n \in Nat \ {0} : n = Interval
  BY CandleAssumption
<1>2. PICK z \in Int : z = q * n
  BY <1>1
<1>3. PICK d \in Int, r \in 0 .. n - 1 : r = z % n /\ z = n * d + r
  BY <1>1, <1>2
<1>4. PICK e \in Int : e = q - d
  OBVIOUS
<1>5. n * e = r
  <2>1. n * e = n * q - n * d /\ n * q = q * n
    BY <1>4
  <2> QED BY <1>2, <1>3, <2>1
<1>6. CASE e >= 1
  <2>1. n * e >= n
    BY <1>6
  <2> QED BY <1>3, <1>5, <2>1
<1>7. CASE e <= -1
  <2>1. n * e <= -n
    BY <1>7
  <2> QED BY <1>3, <1>5, <2>1
<1>8. CASE e = 0
  <2>1. n * e = 0
    BY <1>8
  <2> QED BY <1>1, <1>2, <1>3, <1>5, <2>1
<1> QED
  BY <1>6, <1>7, <1>8

\* The bounds of a set with one more element.
LEMMA BoundsGrow ==
    ASSUME NEW S, S \subseteq Nat, NEW p \in Nat,
           Max(S) \in S, \A y \in S : y <= Max(S),
           Min(S) \in S, \A y \in S : Min(S) <= y
    PROVE  /\ Max(S \cup {p}) = IF p > Max(S) THEN p ELSE Max(S)
           /\ Min(S \cup {p}) = IF p < Min(S) THEN p ELSE Min(S)
<1> DEFINE T == S \cup {p}
<1>1. PICK a \in S, b \in S : a = Max(S) /\ b = Min(S)
  OBVIOUS
<1>2. (\A y \in S : y <= a) /\ (\A y \in S : b <= y)
  BY <1>1
<1>3. PICK x \in T : x = IF p > a THEN p ELSE a
  OBVIOUS
<1>4. PICK z \in T : z = IF p < b THEN p ELSE b
  OBVIOUS
<1>5. T \subseteq Int /\ (\A y \in T : y <= x) /\ (\A y \in T : z <= y)
  BY <1>2, <1>3, <1>4
<1>6. Max(T) = x /\ Min(T) = z
  <2> HIDE DEF T
  <2> QED BY <1>5, MaxIs, MinIs
<1> QED
  BY <1>1, <1>3, <1>4, <1>6

-----------------------------------------------------------------------------
(* Types. *)

\* a tick, and how it is named in the history
Tick == [price : Prices, ts : Times]

Entry == [loop : Loops, n : Nat]

-----------------------------------------------------------------------------
(* The history of a series of ticks. *)

\* Sequences with the same length and elements are equal.
LEMMA SameSeq ==
    ASSUME NEW S, NEW a \in Seq(S), NEW b \in Seq(S), Len(a) = Len(b),
           \A i \in 1 .. Len(a) : a[i] = b[i]
    PROVE  a = b
  OBVIOUS

\* the latest of n ticks, as many as a history holds
Kept(n) == IF n <= MaxTicksPerSym THEN n ELSE MaxTicksPerSym

Recent(s, n) == [j \in 1 .. Kept(n) |-> s[(n - Kept(n)) + j]]

\* They are a sequence of ticks.
LEMMA RecentTyped ==
    ASSUME NEW s \in Seq(Entry), NEW n \in 0 .. Len(s)
    PROVE  /\ Kept(n) \in Nat /\ Kept(n) <= n /\ Kept(n) <= MaxTicksPerSym
           /\ Recent(s, n) \in Seq(Entry) /\ Len(Recent(s, n)) = Kept(n)
           /\ \A j \in 1 .. Kept(n) : Recent(s, n)[j] = s[(n - Kept(n)) + j]
<1>1. Len(s) \in Nat /\ n \in Nat /\ MaxTicksPerSym \in Nat \ {0}
  BY PipelineAssumption
<1>2. PICK k \in Nat : k = Kept(n) /\ k <= n /\ k <= MaxTicksPerSym
  BY <1>1 DEF Kept
<1>3. ASSUME NEW j \in 1 .. k PROVE s[(n - k) + j] \in Entry
  <2>1. (n - k) + j \in 1 .. Len(s)
    BY <1>1, <1>2
  <2> QED BY <2>1
<1>4. Recent(s, n) = [j \in 1 .. k |-> s[(n - k) + j]]
  BY <1>2 DEF Recent
<1>5. Recent(s, n) \in [1 .. k -> Entry]
  BY <1>3, <1>4
<1>6. Recent(s, n) \in Seq(Entry) /\ Len(Recent(s, n)) = k
  BY <1>5
<1> QED
  BY <1>2, <1>4, <1>6

\* A history with a tick more keeps the latest of them.
LEMMA HistoryStep ==
    ASSUME NEW s \in Seq(Entry), NEW n \in Nat, n + 1 \in 1 .. Len(s)
    PROVE  WithLatest(Recent(s, n), s[n + 1]) = Recent(s, n + 1)
<1>1. PICK M \in Nat \ {0} : M = MaxTicksPerSym
  BY PipelineAssumption
<1>2. n \in 0 .. Len(s) /\ n + 1 \in 0 .. Len(s) /\ n + 1 \in 1 .. Len(s)
  OBVIOUS
<1>3. PICK h \in Seq(Entry), k \in Nat : /\ h = Recent(s, n) /\ k = Kept(n) /\ Len(h) = k
                                        /\ \A j \in 1 .. k : h[j] = s[(n - k) + j]
  BY <1>2, RecentTyped
<1>4. PICK g \in Seq(Entry), l \in Nat : /\ g = Recent(s, n + 1) /\ l = Kept(n + 1) /\ Len(g) = l
                                        /\ \A j \in 1 .. l : g[j] = s[((n + 1) - l) + j]
  BY <1>2, RecentTyped
<1>5. PICK t \in Entry : t = s[n + 1]
  BY <1>2
<1>6. PICK a \in Seq(Entry) : /\ a = Append(h, t) /\ Len(a) = k + 1
                             /\ \A j \in 1 .. k + 1 : a[j] = IF j <= k THEN h[j] ELSE t
  <2>1. /\ Append(h, t) \in Seq(Entry) /\ Len(Append(h, t)) = Len(h) + 1
        /\ \A j \in 1 .. Len(h) + 1 : Append(h, t)[j] = IF j <= Len(h) THEN h[j] ELSE t
    OBVIOUS
  <2> QED BY <1>3, <2>1
<1>7. ASSUME NEW j \in 1 .. k + 1 PROVE a[j] = s[(n - k) + j]
  <2>1. CASE j <= k
    BY <1>3, <1>6, <2>1
  <2>2. CASE ~(j <= k)
    <3>1. j = k + 1 /\ (n - k) + j = n + 1
      BY <2>2
    <3> QED BY <1>5, <1>6, <2>2, <3>1
  <2> QED BY <2>1, <2>2
<1>8. CASE k + 1 > M
  <2>1. k = M /\ l = M
    BY <1>1, <1>3, <1>4, <1>8 DEF Kept
  <2>2. WithLatest(h, t) = SubSeq(a, 2, k + 1)
    <3>1. (Len(a) - M) + 1 = 2
      BY <1>6, <2>1
    <3> QED BY <1>1, <1>6, <1>8, <3>1 DEF WithLatest
  <2>3. PICK b \in Seq(Entry) : b = SubSeq(a, 2, k + 1) /\ Len(b) = k /\ \A j \in 1 .. k : b[j] = a[j + 1]
    <3>1. /\ SubSeq(a, 2, k + 1) \in Seq(Entry) /\ Len(SubSeq(a, 2, k + 1)) = k
      BY <1>1, <1>6, <2>1
    <3>2. ASSUME NEW j \in 1 .. k PROVE SubSeq(a, 2, k + 1)[j] = a[j + 1]
      BY <1>1, <1>6, <2>1
    <3> QED BY <3>1, <3>2
  <2>4. ASSUME NEW j \in 1 .. k PROVE b[j] = g[j]
    <3>1. j + 1 \in 1 .. k + 1 /\ (n - k) + (j + 1) = ((n + 1) - l) + j /\ j \in 1 .. l
      BY <2>1
    <3> QED BY <1>4, <1>7, <2>3, <3>1
  <2>5. b = g
    BY ONLY b \in Seq(Entry), g \in Seq(Entry), <1>4, <2>1, <2>3, <2>4, SameSeq
  <2> QED BY <1>3, <1>4, <1>5, <2>2, <2>3, <2>5
<1>9. CASE ~(k + 1 > M)
  <2>1. k = n /\ l = k + 1
    BY <1>1, <1>3, <1>4, <1>9 DEF Kept
  <2>2. WithLatest(h, t) = a
    BY <1>1, <1>6, <1>9 DEF WithLatest
  <2>3. ASSUME NEW j \in 1 .. k + 1 PROVE a[j] = g[j]
    <3>1. j \in 1 .. l /\ (n - k) + j = ((n + 1) - l) + j
      BY <2>1
    <3> QED BY <1>4, <1>7, <3>1
  <2>4. a = g
    BY ONLY a \in Seq(Entry), g \in Seq(Entry), <1>4, <1>6, <2>1, <2>3, SameSeq
  <2> QED BY <1>3, <1>4, <1>5, <2>2, <2>4
<1> QED
  BY <1>8, <1>9

\* The latest ticks are a suffix of all.
LEMMA RecentIsSuffix ==
    ASSUME NEW s \in Seq(Entry)
    PROVE  IsSuffix(Recent(s, Len(s)), s)
<1>1. PICK n \in Nat : n = Len(s) /\ n \in 0 .. Len(s)
  OBVIOUS
<1>2. PICK h \in Seq(Entry), k \in Nat : /\ h = Recent(s, n) /\ k = Kept(n) /\ Len(h) = k /\ k <= n
                                        /\ \A j \in 1 .. k : h[j] = s[(n - k) + j]
  BY <1>1, RecentTyped
<1>3. PICK r \in Seq(Entry) : r = Reverse(s) /\ Len(r) = n /\ \A i \in 1 .. n : r[i] = s[(n - i) + 1]
  <2>1. ASSUME NEW i \in 1 .. n PROVE s[(n - i) + 1] \in Entry
    <3>1. (n - i) + 1 \in 1 .. Len(s)
      BY <1>1
    <3> QED BY <3>1
  <2>2. Reverse(s) = [i \in 1 .. n |-> s[(n - i) + 1]]
    BY <1>1 DEF Reverse
  <2>3. Reverse(s) \in [1 .. n -> Entry]
    BY <2>1, <2>2
  <2>4. Reverse(s) \in Seq(Entry) /\ Len(Reverse(s)) = n
    BY <2>3
  <2> QED BY <2>2, <2>4
<1>4. PICK q \in Seq(Entry) : q = Reverse(h) /\ Len(q) = k /\ \A i \in 1 .. k : q[i] = h[(k - i) + 1]
  <2>1. ASSUME NEW i \in 1 .. k PROVE h[(k - i) + 1] \in Entry
    <3>1. (k - i) + 1 \in 1 .. Len(h)
      BY <1>2
    <3> QED BY <3>1
  <2>2. Reverse(h) = [i \in 1 .. k |-> h[(k - i) + 1]]
    BY <1>2 DEF Reverse
  <2>3. Reverse(h) \in [1 .. k -> Entry]
    BY <2>1, <2>2
  <2>4. Reverse(h) \in Seq(Entry) /\ Len(Reverse(h)) = k
    BY <2>3
  <2> QED BY <2>2, <2>4
<1>5. ASSUME NEW i \in 1 .. k PROVE q[i] = r[i]
  <2>1. (k - i) + 1 \in 1 .. k /\ (n - k) + ((k - i) + 1) = (n - i) + 1 /\ i \in 1 .. n
    BY <1>2
  <2> QED BY <1>2, <1>3, <1>4, <2>1
<1>6. SubSeq(q, 1, k) = SubSeq(r, 1, k)
  <2>1. PICK a \in Seq(Entry) : a = SubSeq(q, 1, k) /\ Len(a) = k /\ \A i \in 1 .. k : a[i] = q[i]
    <3>1. SubSeq(q, 1, k) \in Seq(Entry) /\ Len(SubSeq(q, 1, k)) = k
      BY <1>4
    <3>2. ASSUME NEW i \in 1 .. k PROVE SubSeq(q, 1, k)[i] = q[i]
      BY <1>4
    <3> QED BY <3>1, <3>2
  <2>2. PICK b \in Seq(Entry) : b = SubSeq(r, 1, k) /\ Len(b) = k /\ \A i \in 1 .. k : b[i] = r[i]
    <3>1. SubSeq(r, 1, k) \in Seq(Entry) /\ Len(SubSeq(r, 1, k)) = k
      BY <1>2, <1>3
    <3>2. ASSUME NEW i \in 1 .. k PROVE SubSeq(r, 1, k)[i] = r[i]
      BY <1>2, <1>3
    <3> QED BY <3>1, <3>2
  <2>3. a = b
    BY ONLY a \in Seq(Entry), b \in Seq(Entry), <1>5, <2>1, <2>2, SameSeq
  <2> QED BY <2>1, <2>2, <2>3
<1>7. IsPrefix(q, r)
  BY <1>2, <1>3, <1>4, <1>6 DEF IsPrefix
<1> QED
  BY <1>1, <1>2, <1>3, <1>4, <1>7 DEF IsSuffix

-----------------------------------------------------------------------------
(* The chart a browser starts from. *)

\* a bar at the start of an interval
AlignedBar == {b \in GoodBar : \E q \in Int : b.time = q * Interval}

\* FetchHistory aligns a bar to the start of its interval.
LEMMA BarAligned ==
    ASSUME NEW b \in GoodBar
    PROVE  [b EXCEPT !.time = AlignTime(b.time)] \in AlignedBar
<1>1. b \in Candle /\ b.time \in Int
  BY DEF GoodBar, Candle
<1>2. PICK q \in Int, a \in Int : a = q * Interval /\ a = AlignTime(b.time)
  BY <1>1, Aligned
<1>3. PICK d : d = [b EXCEPT !.time = a]
  OBVIOUS
<1>4. /\ d \in Candle /\ d.time = a /\ d.open = b.open /\ d.close = b.close
      /\ d.high = b.high /\ d.low = b.low
  BY <1>1, <1>3 DEF Candle
<1>5. d \in GoodBar
  BY <1>4 DEF GoodBar
<1> QED
  BY <1>2, <1>3, <1>4, <1>5 DEF AlignedBar

\* the bars kept of one more kline
Parse(bars, k) == IF k = None THEN bars ELSE Append(bars, [k EXCEPT !.time = AlignTime(k.time)])

\* The bars of the exchange are well formed and aligned.
LEMMA KlinesParsed ==
    ASSUME NEW ks \in Seq({None} \cup GoodBar)
    PROVE  KlineHistory(ks) \in Seq(AlignedBar)
<1> DEFINE Runs(u, m) == u = [n \in 0 .. m |-> IF n = 0 THEN <<>> ELSE Parse(u[n - 1], ks[n])]
           G == {m \in Nat : \E u : Runs(u, m)}
<1>0. Len(ks) \in Nat /\ \A n \in 1 .. Len(ks) : ks[n] \in {None} \cup GoodBar
  OBVIOUS
<1>1. 0 \in G
  <2> DEFINE u == [n \in 0 .. 0 |-> <<>>]
  <2>1. Runs(u, 0)
    OBVIOUS
  <2> HIDE DEF u, Runs
  <2> QED BY <2>1
<1>2. ASSUME NEW m \in Nat, m \in G PROVE m + 1 \in G
  <2>1. PICK u : Runs(u, m)
    BY <1>2
  <2> DEFINE v == [n \in 0 .. m + 1 |-> IF n = m + 1 THEN Parse(u[m], ks[m + 1]) ELSE u[n]]
             w == [n \in 0 .. m + 1 |-> IF n = 0 THEN <<>> ELSE Parse(v[n - 1], ks[n])]
  <2>2. ASSUME NEW n \in 0 .. m + 1 PROVE v[n] = w[n]
    <3>1. CASE n = m + 1
      <4>1. n # 0 /\ n - 1 = m /\ m \in 0 .. m + 1 /\ m # m + 1
        BY <3>1
      <4>2. v[m] = u[m]
        BY <4>1
      <4> QED BY <3>1, <4>1, <4>2
    <3>2. CASE n = 0
      <4>1. u[0] = <<>>
        BY <2>1
      <4> QED BY <3>2, <4>1
    <3>3. CASE n # 0 /\ n # m + 1
      <4>1. n \in 0 .. m /\ n - 1 \in 0 .. m + 1 /\ n - 1 # m + 1
        BY <3>3
      <4>2. u[n] = Parse(u[n - 1], ks[n])
        BY <2>1, <3>3, <4>1
      <4>3. v[n - 1] = u[n - 1]
        BY <4>1
      <4> QED BY <3>3, <4>2, <4>3
    <3> QED BY <3>1, <3>2, <3>3
  <2>3. v = w
    BY <2>2
  <2>4. Runs(v, m + 1)
    BY <2>3
  <2> HIDE DEF v, Runs
  <2> QED BY <2>4
<1>3. Len(ks) \in G
  <2> HIDE DEF G
  <2> QED BY <1>0, <1>1, <1>2, SetInduction
<1>4. PICK u : u = CHOOSE v : Runs(v, Len(ks))
  OBVIOUS
<1>5. Runs(u, Len(ks))
  <2> HIDE DEF Runs
  <2> QED BY <1>3, <1>4
<1>6. KlineHistory(ks) = u[Len(ks)]
  <2> DEFINE Parsed == CHOOSE v : v = [n \in 0 .. Len(ks) |->
                IF n = 0 THEN <<>>
                ELSE IF ks[n] = None THEN v[n - 1]
                ELSE Append(v[n - 1], [ks[n] EXCEPT !.time = AlignTime(ks[n].time)])]
  <2>1. KlineHistory(ks) = Parsed[Len(ks)]
    BY DEF KlineHistory
  <2>2. u = Parsed
    BY <1>4 DEF Parse
  <2> QED BY <2>1, <2>2
<1> DEFINE H == {n \in Nat : n <= Len(ks) => u[n] \in Seq(AlignedBar)}
<1>7. 0 \in H
  <2>1. u[0] = <<>>
    BY <1>0, <1>5
  <2>2. \A S : <<>> \in Seq(S)
    OBVIOUS
  <2>3. u[0] \in Seq(AlignedBar)
    BY <2>1, <2>2
  <2> QED BY <2>3
<1>8. ASSUME NEW n \in Nat, n \in H PROVE n + 1 \in H
  <2> SUFFICES ASSUME n + 1 <= Len(ks) PROVE u[n + 1] \in Seq(AlignedBar)
    OBVIOUS
  <2>1. n + 1 \in 1 .. Len(ks) /\ n + 1 \in 0 .. Len(ks) /\ n + 1 # 0 /\ (n + 1) - 1 = n /\ n <= Len(ks)
    BY <1>0
  <2>2. u[n + 1] = Parse(u[n], ks[n + 1])
    BY <1>5, <2>1
  <2>3. u[n] \in Seq(AlignedBar)
    BY <1>8, <2>1
  <2>4. CASE ks[n + 1] = None
    BY <2>2, <2>3, <2>4 DEF Parse
  <2>5. CASE ks[n + 1] # None
    <3>1. ks[n + 1] \in GoodBar
      BY <1>0, <2>1, <2>5
    <3>2. PICK b \in AlignedBar : b = [ks[n + 1] EXCEPT !.time = AlignTime(ks[n + 1].time)]
      BY <3>1, BarAligned
    <3>3. u[n + 1] = Append(u[n], b)
      BY <2>2, <2>5, <3>2 DEF Parse
    <3> QED BY <2>3, <3>3
  <2> QED BY <2>4, <2>5
<1>9. Len(ks) \in H
  <2> HIDE DEF H
  <2> QED BY <1>0, <1>7, <1>8, SetInduction
<1> QED
  BY <1>0, <1>6, <1>9

\* A generated candle spans its walk.
LEMMA GeneratedBar ==
    ASSUME NEW time \in Int, NEW walk \in Seq(Nat), Len(walk) # 0
    PROVE  /\ GenerateCandle(time, walk) \in GoodBar
           /\ GenerateCandle(time, walk).time = time
           /\ GenerateCandle(time, walk).open = walk[1]
           /\ GenerateCandle(time, walk).close = walk[Len(walk)]
<1>1. PICK n \in Nat : n = Len(walk) /\ 1 \in 1 .. n /\ n \in 1 .. n
  OBVIOUS
<1>2. \A i \in 1 .. n : walk[i] \in Nat /\ walk[i] \in ToSet(walk)
  BY <1>1 DEF ToSet
<1>3. ToSet(walk) \subseteq Int /\ ToSet(walk) # {}
  BY <1>1, <1>2 DEF ToSet
<1>4. IsFiniteSet(ToSet(walk))
  <2> DEFINE f == [i \in 1 .. n |-> walk[i]]
  <2>1. f \in Surjection(1 .. n, ToSet(walk))
    BY <1>1 DEF Surjection, ToSet
  <2> HIDE DEF f
  <2>2. IsFiniteSet(1 .. n)
    BY FS_Interval
  <2> QED BY <2>1, <2>2, FS_Surjection
<1>5. PICK a \in Int, b \in Int :
        /\ a = Max(ToSet(walk)) /\ \A y \in ToSet(walk) : y <= a
        /\ b = Min(ToSet(walk)) /\ \A y \in ToSet(walk) : b <= y
  BY <1>3, <1>4, MaxMin
<1>6. PICK x \in Nat, z \in Nat : /\ x = walk[1] /\ z = walk[Len(walk)]
                                  /\ b <= x /\ x <= a /\ b <= z /\ z <= a
  BY <1>1, <1>2, <1>5
<1>7. GenerateCandle(time, walk) = [time |-> time, open |-> x, close |-> z, high |-> a, low |-> b]
  BY <1>5, <1>6 DEF GenerateCandle
<1> QED
  BY <1>6, <1>7 DEF GoodBar, Candle

\* The walk of a generated candle.
LEMMA WalkOn ==
    ASSUME NEW S, NEW base \in S, NEW move \in Seq(S), Len(move) # 0
    PROVE  /\ <<base>> \o move \in Seq(S) /\ Len(<<base>> \o move) # 0
           /\ (<<base>> \o move)[1] = base
           /\ (<<base>> \o move)[Len(<<base>> \o move)] = Last(move)
<1>1. PICK n \in Nat : n = Len(move) /\ n # 0
  OBVIOUS
<1>2. PICK a \in Seq(S) : a = <<base>> /\ Len(a) = 1 /\ a[1] = base
  <2>1. <<base>> \in Seq(S) /\ Len(<<base>>) = 1 /\ <<base>>[1] = base
    OBVIOUS
  <2> QED BY <2>1
<1>3. PICK w \in Seq(S) : /\ w = a \o move /\ Len(w) = 1 + n
                          /\ \A i \in 1 .. 1 + n : w[i] = IF i <= 1 THEN a[i] ELSE move[i - 1]
  <2>1. /\ a \o move \in Seq(S) /\ Len(a \o move) = Len(a) + Len(move)
        /\ \A i \in 1 .. Len(a) + Len(move) :
                (a \o move)[i] = IF i <= Len(a) THEN a[i] ELSE move[i - Len(a)]
    OBVIOUS
  <2> QED BY <1>1, <1>2, <2>1
<1>4. w[1] = base
  BY <1>1, <1>2, <1>3
<1>5. w[1 + n] = move[n]
  <2>1. 1 + n \in 1 .. 1 + n /\ ~(1 + n <= 1) /\ (1 + n) - 1 = n
    BY <1>1
  <2> QED BY <1>3, <2>1
<1> QED
  BY <1>1, <1>2, <1>3, <1>4, <1>5 DEF Last

\* walks of the generator, at least one step each
Moves == {m \in Seq(Seq(Nat)) : Len(m) # 0 /\ \A i \in 1 .. Len(m) : Len(m[i]) # 0}

\* each bar of a chart begins where and when the one before it ends
NoGap(bars) ==
    \A i \in 1 .. Len(bars) - 1 :
        /\ bars[i + 1].time = bars[i].time + Interval
        /\ bars[i + 1].open = bars[i].close

\* a chart from the price base up to the bar of the time ts
Generated(bars, base, ts) ==
    /\ bars \in Seq(GoodBar) /\ Len(bars) # 0
    /\ bars[1].open = base
    /\ bars[Len(bars)].time = AlignTime(ts)
    /\ NoGap(bars)
    /\ \A i \in 1 .. Len(bars) : \E q \in Int : bars[i].time = q * Interval

\* A generated chart has no gap and no jump, and ends with the current bar.
LEMMA GeneratedChart ==
    ASSUME NEW base \in Nat, NEW moves \in Moves, NEW ts \in Nat
    PROVE  Generated(MockHistory(base, moves, ts), base, ts)
<1> DEFINE Open(i) == IF i = 1 THEN base ELSE Last(moves[i - 1])
           Time(i) == AlignTime(ts) - (Len(moves) - i) * Interval
<1>1. PICK n \in Nat : n = Len(moves) /\ n # 0
  BY DEF Moves
<1>2. \A i \in 1 .. n : moves[i] \in Seq(Nat) /\ Len(moves[i]) # 0
  BY <1>1 DEF Moves
<1>3. \A i \in 1 .. n : Last(moves[i]) \in Nat
  <2>1. ASSUME NEW m \in Seq(Nat), Len(m) # 0 PROVE Last(m) \in Nat
    BY <2>1 DEF Last
  <2> QED BY <1>2, <2>1
<1>4. ASSUME NEW i \in 1 .. n PROVE Open(i) \in Nat
  <2>1. CASE i = 1
    BY <2>1
  <2>2. CASE i # 1
    <3>1. i - 1 \in 1 .. n
      BY <1>1, <2>2
    <3> QED BY <1>3, <2>2, <3>1
  <2> QED BY <2>1, <2>2
<1>5. PICK k \in Nat \ {0} : k = Interval
  BY CandleAssumption
<1>6. PICK al \in Int, p \in Int : al = AlignTime(ts) /\ al = p * k
  <2>1. ts \in Int
    OBVIOUS
  <2> QED BY <1>5, <2>1, Aligned
<1>7. ASSUME NEW i \in 1 .. n PROVE Time(i) \in Int /\ Time(i) = al - (n - i) * k
  BY <1>1, <1>5, <1>6
<1> DEFINE bars == MockHistory(base, moves, ts)
<1>8. bars = [i \in 1 .. n |-> GenerateCandle(Time(i), <<Open(i)>> \o moves[i])]
  BY <1>1 DEF MockHistory
<1> HIDE DEF Open, Time, bars
<1>9. ASSUME NEW i \in 1 .. n
      PROVE  /\ bars[i] \in GoodBar /\ bars[i].time = Time(i)
             /\ bars[i].open = Open(i) /\ bars[i].close = Last(moves[i])
  <2>1. PICK walk \in Seq(Nat) : /\ walk = <<Open(i)>> \o moves[i] /\ Len(walk) # 0
                                 /\ walk[1] = Open(i) /\ walk[Len(walk)] = Last(moves[i])
    <3>1. PICK o \in Nat, m \in Seq(Nat) : o = Open(i) /\ m = moves[i] /\ Len(m) # 0
      BY <1>2, <1>4
    <3>2. /\ <<o>> \o m \in Seq(Nat) /\ Len(<<o>> \o m) # 0 /\ (<<o>> \o m)[1] = o
          /\ (<<o>> \o m)[Len(<<o>> \o m)] = Last(m)
      BY <3>1, WalkOn
    <3> QED BY <3>1, <3>2
  <2>2. bars[i] = GenerateCandle(Time(i), walk)
    BY <1>8, <2>1
  <2>3. PICK t \in Int : t = Time(i)
    BY <1>7
  <2>4. /\ GenerateCandle(t, walk) \in GoodBar /\ GenerateCandle(t, walk).time = t
        /\ GenerateCandle(t, walk).open = walk[1]
        /\ GenerateCandle(t, walk).close = walk[Len(walk)]
    BY <2>1, GeneratedBar
  <2> QED BY <2>1, <2>2, <2>3, <2>4
<1>10. bars \in [1 .. n -> GoodBar]
  <2>1. bars = [i \in 1 .. n |-> bars[i]]
    BY <1>8
  <2> QED BY <1>9, <2>1
<1>11. bars \in Seq(GoodBar) /\ Len(bars) = n
  BY <1>10
<1>12. bars[1].open = base /\ bars[n].time = al
  <2>1. 1 \in 1 .. n /\ n \in 1 .. n /\ (n - n) * k = 0
    BY <1>1, <1>5
  <2>2. Open(1) = base
    BY DEF Open
  <2>3. Time(n) = al
    BY <1>7, <2>1
  <2> QED BY <1>9, <2>1, <2>2, <2>3
<1>13. ASSUME NEW i \in 1 .. n - 1
       PROVE  /\ bars[i + 1].time = bars[i].time + k
              /\ bars[i + 1].open = bars[i].close
  <2>1. i \in 1 .. n /\ i + 1 \in 1 .. n /\ i + 1 # 1 /\ (i + 1) - 1 = i
    BY <1>1
  <2>2. Open(i + 1) = Last(moves[i])
    BY <2>1 DEF Open
  <2>3. Time(i + 1) = Time(i) + k
    <3>1. PICK d \in Int : d = n - (i + 1)
      OBVIOUS
    <3>2. n - i = d + 1 /\ (d + 1) * k = d * k + k
      BY <3>1
    <3>3. PICK e \in Int : e = d * k
      BY <3>1
    <3> QED BY <1>7, <2>1, <3>1, <3>2, <3>3
  <2> QED BY <1>9, <2>1, <2>2, <2>3
<1>14. ASSUME NEW i \in 1 .. n PROVE \E q \in Int : bars[i].time = q * k
  <2>1. PICK d \in Int : d = n - i
    OBVIOUS
  <2>2. p * k - d * k = (p - d) * k /\ p - d \in Int
    BY <1>6, <2>1
  <2> QED BY <1>6, <1>7, <1>9, <2>1, <2>2
<1> QED
  BY <1>1, <1>5, <1>6, <1>11, <1>12, <1>13, <1>14 DEF NoGap, Generated, bars

-----------------------------------------------------------------------------
(* The types of the state. *)

Pcs == {"range", "get", "set", "candle", "new", "high", "sethigh", "low", "setlow", "close"}

\* the steps at which a loop holds the current candle
Fields == {"high", "sethigh", "low", "setlow", "close"}

LoopState == [pc : Pcs, tick : {None} \cup Tick, n : Nat, read : Seq(Entry)]

Types ==
    /\ loop \in [Loops -> LoopState]
    /\ \A l \in Loops : loop[l].pc # "range" => loop[l].tick \in Tick
    /\ latest \in {None} \cup Tick
    /\ history \in Seq(Entry) /\ saved \in Seq(Entry) /\ clean \in BOOLEAN
    /\ candle \in {None} \cup Candle
    /\ seen \in Seq(Tick) /\ torn \in BOOLEAN /\ alone \in BOOLEAN
    /\ \A l \in Loops : loop[l].pc \in Fields => candle \in Candle

\* A new candle is one.
LEMMA NewTyped ==
    ASSUME NEW t \in Tick
    PROVE  /\ NewCandle(t) \in Candle /\ NewCandle(t) # None
           /\ t.price \in Nat /\ t.ts \in Nat /\ AlignTime(t.ts) \in Int
<1>0. Prices \subseteq Nat /\ Times \subseteq Nat
  BY PipelineAssumption
<1>a. t.price \in Prices /\ t.ts \in Times
  BY DEF Tick
<1>b. (\A x \in Prices : x \in Nat) /\ (\A x \in Times : x \in Nat) /\ (\A x \in Nat : x \in Int)
  BY <1>0
<1>1. t.price \in Nat /\ t.ts \in Nat /\ t.ts \in Int
  BY <1>a, <1>b, Zenon
<1>2. AlignTime(t.ts) \in Int
  BY <1>1, Aligned
<1>3. NewCandle(t) \in Candle
  BY <1>1, <1>2 DEF NewCandle, Candle
<1> QED
  BY <1>1, <1>2, <1>3, CandleAssumption

\* A history with a tick more is a history.
LEMMA LatestTyped ==
    ASSUME NEW h \in Seq(Entry), NEW t \in Entry
    PROVE  WithLatest(h, t) \in Seq(Entry)
<1>0. PICK M \in Nat \ {0} : M = MaxTicksPerSym
  BY PipelineAssumption
<1>1. PICK s \in Seq(Entry) : s = Append(h, t)
  <2>1. Append(h, t) \in Seq(Entry)
    OBVIOUS
  <2> QED BY <2>1
<1>2. CASE Len(s) > M
  <2>1. PICK m \in Nat : m = Len(s) - M + 1 /\ m >= 1
    <3>1. Len(s) \in Nat /\ Len(s) - M + 1 >= 1 /\ Len(s) - M + 1 \in Nat
      BY <1>2
    <3> QED BY <3>1
  <2>2. SubSeq(s, m, Len(s)) \in Seq(Entry)
    BY <1>1, <2>1
  <2> QED BY <1>0, <1>1, <1>2, <2>1, <2>2 DEF WithLatest
<1> QED
  BY <1>0, <1>1, <1>2 DEF WithLatest

\* The types are kept by every step.
LEMMA TypesInit == Init => Types
<1> SUFFICES ASSUME Init PROVE Types
  OBVIOUS
<1>1. \A S : <<>> \in Seq(S)
  OBVIOUS
<1>2. loop \in [Loops -> LoopState]
  BY <1>1 DEF Init, LoopState, Pcs
<1> QED
  BY <1>1, <1>2 DEF Init, Types, Fields

\* A step of one loop leaves the others alone.
LEMMA TypesLoop ==
    ASSUME Types, NEW l \in Loops, NEW v \in LoopState, SetLoop(l, v)
    PROVE  /\ loop' \in [Loops -> LoopState] /\ loop'[l] = v
           /\ \A k \in Loops : k # l => loop'[k] = loop[k]
  BY DEF Types, SetLoop

LEMMA TypesNext == Types /\ [Next]_vars => Types'
<1> SUFFICES ASSUME Types, [Next]_vars PROVE Types'
  OBVIOUS
<1>0. /\ loop \in [Loops -> LoopState] /\ \A k \in Loops : loop[k] \in LoopState
      /\ \A k \in Loops : loop[k].pc # "range" => loop[k].tick \in Tick
      /\ latest \in {None} \cup Tick
      /\ history \in Seq(Entry) /\ saved \in Seq(Entry) /\ clean \in BOOLEAN
      /\ candle \in {None} \cup Candle
      /\ seen \in Seq(Tick) /\ torn \in BOOLEAN /\ alone \in BOOLEAN
      /\ \A k \in Loops : loop[k].pc \in Fields => candle \in Candle
  BY DEF Types
<1>e. \A S : <<>> \in Seq(S)
  OBVIOUS
<1>1. ASSUME NEW l \in Loops, Take(l) PROVE Types'
  <2>1. PICK t \in Tick : /\ SetLoop(l, [loop[l] EXCEPT !.pc = "get", !.tick = t, !.n = @ + 1])
                          /\ latest' = t \/ UNCHANGED latest
    BY <1>1 DEF Take, Tick
  <2>2. PICK v \in LoopState : v = [loop[l] EXCEPT !.pc = "get", !.tick = t, !.n = @ + 1]
    <3>1. PICK v : v = [loop[l] EXCEPT !.pc = "get", !.tick = t, !.n = @ + 1]
      OBVIOUS
    <3>2. loop[l].n + 1 \in Nat /\ "get" \in Pcs /\ t \in {None} \cup Tick
      BY <1>0 DEF LoopState, Pcs
    <3>3. v \in LoopState
      BY <1>0, <3>1, <3>2 DEF LoopState
    <3> QED BY <3>1, <3>3
  <2>3. /\ loop' \in [Loops -> LoopState] /\ loop'[l] = v
        /\ \A k \in Loops : k # l => loop'[k] = loop[k]
    BY <2>1, <2>2, TypesLoop
  <2>4. v.pc = "get" /\ v.tick = t
    BY <1>0, <2>2 DEF LoopState
  <2> QED BY <1>0, <1>1, <2>1, <2>3, <2>4 DEF Take, historyVars, candleVars, Types, Fields
<1>2. ASSUME NEW l \in Loops, GetHistory(l) PROVE Types'
  <2>1. PICK v \in LoopState : SetLoop(l, v) /\ v.pc \in {"set", "candle"} /\ v.tick = loop[l].tick
    <3>1. CASE \E h \in {history, <<>>} : SetLoop(l, [loop[l] EXCEPT !.pc = "set", !.read = h])
      <4>1. PICK h \in {history, <<>>} : SetLoop(l, [loop[l] EXCEPT !.pc = "set", !.read = h])
        BY <3>1
      <4>2. h \in Seq(Entry)
        BY <1>0, <1>e
      <4>3. PICK v : v = [loop[l] EXCEPT !.pc = "set", !.read = h]
        OBVIOUS
      <4>4. v \in LoopState /\ v.pc = "set" /\ v.tick = loop[l].tick
        BY <1>0, <4>2, <4>3 DEF LoopState, Pcs
      <4> QED BY <4>1, <4>3, <4>4
    <3>2. CASE Goto(l, "candle")
      <4>1. PICK v : v = [loop[l] EXCEPT !.pc = "candle"]
        OBVIOUS
      <4>2. v \in LoopState /\ v.pc = "candle" /\ v.tick = loop[l].tick
        BY <1>0, <4>1 DEF LoopState, Pcs
      <4> QED BY <3>2, <4>1, <4>2 DEF Goto
    <3> QED BY <1>2, <3>1, <3>2 DEF GetHistory
  <2>2. /\ loop' \in [Loops -> LoopState] /\ loop'[l] = v
        /\ \A k \in Loops : k # l => loop'[k] = loop[k]
    BY <2>1, TypesLoop
  <2>3. loop[l].tick \in Tick /\ clean' \in BOOLEAN
    BY <1>0, <1>2 DEF GetHistory
  <2> QED BY <1>0, <1>2, <2>1, <2>2, <2>3 DEF GetHistory, candleVars, Types, Fields
<1>3. ASSUME NEW l \in Loops, SetHistory(l) PROVE Types'
  <2>1. PICK v : v = [loop[l] EXCEPT !.pc = "candle", !.read = <<>>]
    OBVIOUS
  <2>2. v \in LoopState /\ v.pc = "candle" /\ v.tick = loop[l].tick /\ SetLoop(l, v)
    BY <1>0, <1>e, <1>3, <2>1 DEF LoopState, Pcs, SetHistory
  <2>3. /\ loop' \in [Loops -> LoopState] /\ loop'[l] = v
        /\ \A k \in Loops : k # l => loop'[k] = loop[k]
    BY <2>2, TypesLoop
  <2>4. PICK t \in Entry : t = [loop |-> l, n |-> loop[l].n]
    BY <1>0 DEF LoopState, Entry
  <2>5. loop[l].read \in Seq(Entry)
    BY <1>0 DEF LoopState
  <2>6. /\ history' = history \/ history' = WithLatest(loop[l].read, t)
        /\ saved' = saved \/ saved' = <<t>> \/ saved' = Append(saved, t)
        /\ clean' \in BOOLEAN
    BY <1>0, <1>3, <2>4 DEF SetHistory, historyVars
  <2>7. WithLatest(loop[l].read, t) \in Seq(Entry)
    BY <2>5, LatestTyped
  <2>8. <<t>> \in Seq(Entry) /\ Append(saved, t) \in Seq(Entry)
    BY <1>0
  <2>9. loop[l].tick \in Tick
    BY <1>0, <1>3 DEF SetHistory
  <2>10. history' \in Seq(Entry) /\ saved' \in Seq(Entry)
    BY <1>0, <2>6, <2>7, <2>8
  <2> QED BY <1>0, <1>3, <2>2, <2>3, <2>6, <2>9, <2>10 DEF SetHistory, candleVars, Types, Fields
<1>4. ASSUME NEW l \in Loops, NEW pc \in Pcs, loop[l].pc # "range", Goto(l, pc),
             UNCHANGED <<latest, historyVars, seen, chart>>,
             candle' = candle \/ candle' \in Candle,
             pc \in Fields => candle' \in Candle, torn' \in BOOLEAN, alone' \in BOOLEAN
      PROVE  Types'
  <2>1. PICK v : v = [loop[l] EXCEPT !.pc = pc]
    OBVIOUS
  <2>2. v \in LoopState /\ v.pc = pc /\ v.tick = loop[l].tick /\ SetLoop(l, v)
    BY <1>0, <1>4, <2>1 DEF LoopState, Goto
  <2>3. /\ loop' \in [Loops -> LoopState] /\ loop'[l] = v
        /\ \A k \in Loops : k # l => loop'[k] = loop[k]
    BY <2>2, TypesLoop
  <2>4. loop[l].tick \in Tick
    BY <1>0, <1>4
  <2> QED BY <1>0, <1>4, <2>2, <2>3, <2>4 DEF historyVars, Types
<1>5. ASSUME NEW l \in Loops, Done(l), candle' \in Candle, seen' \in Seq(Tick),
             torn' \in BOOLEAN, UNCHANGED <<latest, historyVars, alone, chart>>
      PROVE  Types'
  <2>1. PICK v : v = [loop[l] EXCEPT !.pc = "range", !.tick = None]
    OBVIOUS
  <2>2. v \in LoopState /\ v.pc = "range" /\ SetLoop(l, v)
    BY <1>0, <1>5, <2>1 DEF LoopState, Pcs, Done
  <2>3. /\ loop' \in [Loops -> LoopState] /\ loop'[l] = v
        /\ \A k \in Loops : k # l => loop'[k] = loop[k]
    BY <2>2, TypesLoop
  <2> QED BY <1>0, <1>5, <2>2, <2>3 DEF historyVars, Types
<1>6. ASSUME NEW l \in Loops, AddTick(l) PROVE Types'
  <2>1. CASE CheckCandle(l)
    <3>1. PICK pc \in {"high", "new"} : /\ Goto(l, pc)
                                        /\ pc = "high" => candle # None
      BY <2>1 DEF CheckCandle
    <3>2. pc \in Pcs /\ (pc \in Fields => candle' \in Candle)
      BY <1>0, <2>1, <3>1 DEF CheckCandle, Pcs, Fields
    <3>3. torn' \in BOOLEAN /\ alone' \in BOOLEAN
      BY <1>0, <2>1 DEF CheckCandle
    <3> QED BY <1>4, <2>1, <3>1, <3>2, <3>3 DEF CheckCandle
  <2>2. CASE StartCandle(l)
    <3>1. loop[l].tick \in Tick
      BY <1>0, <2>2 DEF StartCandle
    <3>2. candle' \in Candle
      BY <2>2, <3>1, NewTyped DEF StartCandle
    <3>3. seen' \in Seq(Tick)
      <4>1. <<loop[l].tick>> \in Seq(Tick)
        BY <3>1
      <4> QED BY <1>e, <2>2, <4>1 DEF StartCandle
    <3>4. torn' \in BOOLEAN
      BY <1>0, <2>2 DEF StartCandle
    <3> QED BY <1>5, <2>2, <3>2, <3>3, <3>4 DEF StartCandle
  <2>3. ASSUME loop[l].pc \in Fields
        PROVE  /\ loop[l].tick \in Tick /\ loop[l].tick.price \in Int /\ candle \in Candle
               /\ \A p \in Int : /\ [candle EXCEPT !.high = p] \in Candle
                                 /\ [candle EXCEPT !.low = p] \in Candle
                                 /\ [candle EXCEPT !.close = p] \in Candle
    <3>1. loop[l].tick \in Tick /\ candle \in Candle
      BY <1>0, <2>3 DEF Fields
    <3>2. loop[l].tick.price \in Int
      BY <3>1, NewTyped
    <3> QED BY <3>1, <3>2 DEF Candle
  <2>4. CASE CheckHigh(l)
    <3>1. PICK pc \in {"sethigh", "low"} : Goto(l, pc)
      BY <2>4 DEF CheckHigh
    <3>2. pc \in Pcs /\ candle' \in Candle /\ torn' \in BOOLEAN /\ alone' \in BOOLEAN
      BY <1>0, <2>3, <2>4 DEF CheckHigh, candleVars, Pcs, Fields
    <3> QED BY <1>4, <2>4, <3>1, <3>2 DEF CheckHigh, candleVars
  <2>5. CASE SetHigh(l)
    <3>1. candle' \in Candle /\ torn' \in BOOLEAN /\ alone' \in BOOLEAN /\ "low" \in Pcs
      BY <1>0, <2>3, <2>5 DEF SetHigh, Pcs, Fields
    <3> QED BY <1>4, <2>5, <3>1 DEF SetHigh
  <2>6. CASE CheckLow(l)
    <3>1. PICK pc \in {"setlow", "close"} : Goto(l, pc)
      BY <2>6 DEF CheckLow
    <3>2. pc \in Pcs /\ candle' \in Candle /\ torn' \in BOOLEAN /\ alone' \in BOOLEAN
      BY <1>0, <2>3, <2>6 DEF CheckLow, candleVars, Pcs, Fields
    <3> QED BY <1>4, <2>6, <3>1, <3>2 DEF CheckLow, candleVars
  <2>7. CASE SetLow(l)
    <3>1. candle' \in Candle /\ torn' \in BOOLEAN /\ alone' \in BOOLEAN /\ "close" \in Pcs
      BY <1>0, <2>3, <2>7 DEF SetLow, Pcs, Fields
    <3> QED BY <1>4, <2>7, <3>1 DEF SetLow
  <2>8. CASE SetClose(l)
    <3>1. candle' \in Candle /\ torn' \in BOOLEAN
      BY <1>0, <2>3, <2>8 DEF SetClose, Fields
    <3>2. seen' \in Seq(Tick)
      <4>1. loop[l].tick \in Tick
        BY <1>0, <2>8 DEF SetClose
      <4>2. Append(seen, loop[l].tick) \in Seq(Tick)
        BY <1>0, <4>1
      <4> QED BY <1>e, <2>8, <4>2 DEF SetClose
    <3> QED BY <1>5, <2>8, <3>1, <3>2 DEF SetClose
  <2> QED BY <1>6, <2>1, <2>2, <2>4, <2>5, <2>6, <2>7, <2>8 DEF AddTick
<1>7. CASE UNCHANGED <<loop, latest, historyVars, candleVars>>
  BY <1>0, <1>7 DEF historyVars, candleVars, Types
<1>8. CASE ExchangeChart \/ MockChart
  BY <1>7, <1>8 DEF ExchangeChart, MockChart
<1>9. CASE UNCHANGED vars
  BY <1>7, <1>9 DEF vars
<1> QED
  BY <1>1, <1>2, <1>3, <1>6, <1>8, <1>9 DEF Next, ProcessTick

-----------------------------------------------------------------------------
(* The history under racing loops. *)

\* the ticks of a loop are in the order it took them
InOrder(h) ==
    \A i, j \in 1 .. Len(h) : (i < j /\ h[i].loop = h[j].loop) => h[i].n < h[j].n

\* and none is one that its loop has yet to save
Past(h) ==
    \A i \in 1 .. Len(h) :
        /\ h[i].n <= loop[h[i].loop].n
        /\ loop[h[i].loop].pc \in {"get", "set"} => h[i].n < loop[h[i].loop].n

GoodHistory(h) == Len(h) <= MaxTicksPerSym /\ InOrder(h) /\ Past(h)

HistoryInv ==
    /\ Types
    /\ GoodHistory(history)
    /\ \A l \in Loops : GoodHistory(loop[l].read)
    /\ clean => /\ \A k, l \in Saving : k = l
                /\ history = Recent(saved, Len(saved))
                /\ \A l \in Saving : loop[l].read \in {history, <<>>}

\* The elements of a history with a tick more: the tick comes last and the others are
\* elements of the history, in its order.
LEMMA LatestElements ==
    ASSUME NEW h \in Seq(Entry), NEW t \in Entry, Len(h) <= MaxTicksPerSym
    PROVE  \E g \in Seq(Entry), d \in Nat :
              /\ g = WithLatest(h, t) /\ Len(g) <= MaxTicksPerSym
              /\ Len(g) + d = Len(h) + 1
              /\ \A i \in 1 .. Len(g) : IF i + d <= Len(h) THEN g[i] = h[i + d] ELSE g[i] = t
<1>0. PICK M \in Nat \ {0} : M = MaxTicksPerSym
  BY PipelineAssumption
<1>1. PICK k \in Nat : M = MaxTicksPerSym /\ k = Len(h) /\ k <= M
  BY <1>0
<1>2. PICK a \in Seq(Entry) : /\ a = Append(h, t) /\ Len(a) = k + 1
                              /\ \A j \in 1 .. k + 1 : a[j] = IF j <= k THEN h[j] ELSE t
  <2>1. /\ Append(h, t) \in Seq(Entry) /\ Len(Append(h, t)) = Len(h) + 1
        /\ \A j \in 1 .. Len(h) + 1 : Append(h, t)[j] = IF j <= Len(h) THEN h[j] ELSE t
    OBVIOUS
  <2> QED BY <1>1, <2>1
<1>3. CASE k + 1 > M
  <2>1. k = M
    BY <1>1, <1>3
  <2>2. WithLatest(h, t) = SubSeq(a, 2, k + 1)
    <3>1. (Len(a) - M) + 1 = 2
      BY <1>2, <2>1
    <3> QED BY <1>1, <1>2, <1>3, <3>1 DEF WithLatest
  <2>3. PICK b \in Seq(Entry) : b = SubSeq(a, 2, k + 1) /\ Len(b) = k /\ \A j \in 1 .. k : b[j] = a[j + 1]
    <3>1. /\ SubSeq(a, 2, k + 1) \in Seq(Entry) /\ Len(SubSeq(a, 2, k + 1)) = k
      BY <1>1, <1>2, <2>1
    <3>2. ASSUME NEW j \in 1 .. k PROVE SubSeq(a, 2, k + 1)[j] = a[j + 1]
      BY <1>1, <1>2, <2>1
    <3> QED BY <3>1, <3>2
  <2>4. ASSUME NEW i \in 1 .. k PROVE IF i + 1 <= k THEN b[i] = h[i + 1] ELSE b[i] = t
    <3>1. i + 1 \in 1 .. k + 1
      OBVIOUS
    <3> QED BY <1>2, <2>3, <3>1
  <2>5. k <= MaxTicksPerSym /\ k + 1 = Len(h) + 1 /\ 1 \in Nat
    BY <1>1
  <2> QED BY <1>1, <2>2, <2>3, <2>4, <2>5
<1>4. CASE ~(k + 1 > M)
  <2>1. WithLatest(h, t) = a
    BY <1>1, <1>2, <1>4 DEF WithLatest
  <2>2. ASSUME NEW i \in 1 .. k + 1 PROVE IF i + 0 <= k THEN a[i] = h[i + 0] ELSE a[i] = t
    BY <1>2
  <2>3. k + 1 <= MaxTicksPerSym /\ (k + 1) + 0 = Len(h) + 1 /\ 0 \in Nat
    BY <1>1, <1>4
  <2> QED BY <1>1, <1>2, <2>1, <2>2, <2>3
<1> QED
  BY <1>3, <1>4

\* A loop with a tick to save keeps its history in order.
LEMMA LatestInOrder ==
    ASSUME Types, NEW l \in Loops, loop[l].pc = "set", NEW h \in Seq(Entry), GoodHistory(h),
           NEW t \in Entry, t = [loop |-> l, n |-> loop[l].n]
    PROVE  /\ Len(WithLatest(h, t)) <= MaxTicksPerSym /\ InOrder(WithLatest(h, t))
           /\ \A i \in 1 .. Len(WithLatest(h, t)) :
                 /\ WithLatest(h, t)[i].n <= loop[WithLatest(h, t)[i].loop].n
                 /\ WithLatest(h, t)[i].loop # l /\ loop[WithLatest(h, t)[i].loop].pc \in {"get", "set"}
                       => WithLatest(h, t)[i].n < loop[WithLatest(h, t)[i].loop].n
<1>1. PICK g \in Seq(Entry), d \in Nat :
              /\ g = WithLatest(h, t) /\ Len(g) <= MaxTicksPerSym
              /\ Len(g) + d = Len(h) + 1
              /\ \A i \in 1 .. Len(g) : IF i + d <= Len(h) THEN g[i] = h[i + d] ELSE g[i] = t
  BY LatestElements DEF GoodHistory
<1>2. PICK m \in Nat, k \in Nat : m = Len(g) /\ k = Len(h)
  OBVIOUS
<1>3. t.loop = l /\ t.n = loop[l].n /\ loop[l].n \in Nat
  BY DEF Types, LoopState
<1>4. \A i \in 1 .. k : h[i] \in Entry /\ h[i].n \in Nat /\ h[i].loop \in Loops
  <2>1. \A i \in 1 .. k : h[i] \in Entry
    BY <1>2
  <2>2. \A e \in Entry : e.n \in Nat /\ e.loop \in Loops
    BY DEF Entry
  <2> QED BY <2>1, <2>2
<1>5. \A i \in 1 .. k : h[i].loop = l => h[i].n < loop[l].n
  BY <1>2 DEF GoodHistory, Past
<1>6. ASSUME NEW i \in 1 .. m, NEW j \in 1 .. m, i < j, g[i].loop = g[j].loop
      PROVE  g[i].n < g[j].n
  <2>1. i + d <= k /\ i + d \in 1 .. k /\ g[i] = h[i + d]
    BY <1>1, <1>2, <1>6
  <2>2. CASE j + d <= k
    <3>1. j + d \in 1 .. k /\ i + d < j + d /\ g[j] = h[j + d]
      BY <1>1, <1>2, <1>6, <2>2
    <3>2. h[i + d].loop = h[j + d].loop
      BY <1>6, <2>1, <3>1
    <3>3. h[i + d].n < h[j + d].n
      BY <1>2, <2>1, <3>1, <3>2 DEF GoodHistory, InOrder
    <3> QED BY <2>1, <3>1, <3>3
  <2>3. CASE ~(j + d <= k)
    <3>1. g[j] = t
      BY <1>1, <1>2, <2>3
    <3> QED BY <1>3, <1>5, <1>6, <2>1, <3>1
  <2> QED BY <2>2, <2>3
<1>7. ASSUME NEW i \in 1 .. m
      PROVE  /\ g[i].n <= loop[g[i].loop].n
             /\ g[i].loop # l /\ loop[g[i].loop].pc \in {"get", "set"} => g[i].n < loop[g[i].loop].n
  <2>1. CASE i + d <= k
    <3>1. i + d \in 1 .. k /\ g[i] = h[i + d]
      BY <1>1, <1>2, <2>1
    <3>2. PICK e \in Entry : e = h[i + d]
      BY <1>4, <3>1
    <3>3. /\ e.n <= loop[e.loop].n
          /\ loop[e.loop].pc \in {"get", "set"} => e.n < loop[e.loop].n
      BY <1>2, <3>1, <3>2 DEF GoodHistory, Past
    <3> QED BY <3>1, <3>2, <3>3
  <2>2. CASE ~(i + d <= k)
    <3>1. g[i] = t
      BY <1>1, <1>2, <2>2
    <3> QED BY <1>3, <3>1
  <2> QED BY <2>1, <2>2
<1> QED
  BY <1>1, <1>2, <1>6, <1>7 DEF InOrder

\* A history stays good while loops take ticks and go on with them.
LEMMA GoodKept ==
    ASSUME Types, Types', NEW h \in Seq(Entry), GoodHistory(h),
           \A k \in Loops :
              \/ /\ loop'[k].n = loop[k].n
                 /\ loop'[k].pc \in {"get", "set"} => loop[k].pc \in {"get", "set"}
              \/ loop'[k].n = loop[k].n + 1
    PROVE  GoodHistory(h)'
<1>1. InOrder(h)' /\ Len(h) <= MaxTicksPerSym
  BY DEF GoodHistory, InOrder
<1>2. \A k \in Loops : loop[k].n \in Nat /\ loop'[k].n \in Nat
  BY DEF Types, LoopState
<1>3. ASSUME NEW i \in 1 .. Len(h)
      PROVE  /\ h[i].n <= loop'[h[i].loop].n
             /\ loop'[h[i].loop].pc \in {"get", "set"} => h[i].n < loop'[h[i].loop].n
  <2>1. PICK e \in Entry : e = h[i]
    OBVIOUS
  <2>2. PICK k \in Loops, n \in Nat : k = e.loop /\ n = e.n
    BY DEF Entry
  <2>3. n <= loop[k].n /\ (loop[k].pc \in {"get", "set"} => n < loop[k].n)
    BY <2>1, <2>2 DEF GoodHistory, Past
  <2>4. n <= loop'[k].n /\ (loop'[k].pc \in {"get", "set"} => n < loop'[k].n)
    BY <1>2, <2>3
  <2> QED BY <2>1, <2>2, <2>4
<1> QED
  BY <1>1, <1>3 DEF GoodHistory, Past

\* The latest of the ticks saved do not change when one more is saved, but for it.
LEMMA RecentGrows ==
    ASSUME NEW s \in Seq(Entry), NEW t \in Entry
    PROVE  WithLatest(Recent(s, Len(s)), t) = Recent(Append(s, t), Len(Append(s, t)))
<1>1. PICK n \in Nat, r \in Seq(Entry) :
        /\ n = Len(s) /\ r = Append(s, t) /\ Len(r) = n + 1 /\ r[n + 1] = t
        /\ \A j \in 1 .. n : r[j] = s[j]
  <2>1. /\ Append(s, t) \in Seq(Entry) /\ Len(Append(s, t)) = Len(s) + 1
        /\ Append(s, t)[Len(s) + 1] = t
        /\ \A j \in 1 .. Len(s) : Append(s, t)[j] = s[j]
    OBVIOUS
  <2>2. Len(s) \in Nat
    OBVIOUS
  <2> QED BY <2>1, <2>2
<1>2. n \in 0 .. Len(s) /\ n \in 0 .. Len(r) /\ n + 1 \in 1 .. Len(r)
  BY <1>1
<1>3. PICK k \in Nat : k = Kept(n) /\ k <= n
  BY <1>2, RecentTyped
<1>4. ASSUME NEW j \in 1 .. k PROVE r[(n - k) + j] = s[(n - k) + j]
  <2>1. (n - k) + j \in 1 .. n
    BY <1>3
  <2> QED BY <1>1, <2>1
<1>5. Recent(r, n) = Recent(s, n)
  BY <1>3, <1>4 DEF Recent
<1>6. WithLatest(Recent(r, n), r[n + 1]) = Recent(r, n + 1)
  BY <1>2, HistoryStep
<1> QED
  BY <1>1, <1>5, <1>6

\* A history of nothing, and of one tick.
LEMMA RecentFirst ==
    /\ Recent(<<>>, Len(<<>>)) = <<>>
    /\ \A t \in Entry : WithLatest(<<>>, t) = <<t>> /\ Recent(<<t>>, Len(<<t>>)) = <<t>>
<1>1. Recent(<<>>, Len(<<>>)) = <<>>
  <2>1. PICK e \in Seq(Entry) : e = <<>> /\ Len(e) = 0
    <3>1. <<>> \in Seq(Entry) /\ Len(<<>>) = 0
      OBVIOUS
    <3> QED BY <3>1
  <2>2. Recent(e, 0) \in Seq(Entry) /\ Len(Recent(e, 0)) = Kept(0) /\ Kept(0) <= 0 /\ Kept(0) \in Nat
    <3>1. 0 \in 0 .. Len(e)
      BY <2>1
    <3> QED BY <3>1, RecentTyped
  <2> QED BY <2>1, <2>2
<1>2. ASSUME NEW t \in Entry PROVE WithLatest(<<>>, t) = <<t>> /\ Recent(<<t>>, Len(<<t>>)) = <<t>>
  <2>1. Append(<<>>, t) = <<t>> /\ Len(<<t>>) = 1
    OBVIOUS
  <2>2. ~(1 > MaxTicksPerSym)
    BY PipelineAssumption
  <2>3. WithLatest(<<>>, t) = <<t>>
    BY <2>1, <2>2 DEF WithLatest
  <2>4. PICK e \in Seq(Entry) : e = <<>>
    <3>1. <<>> \in Seq(Entry)
      OBVIOUS
    <3> QED BY <3>1
  <2>5. WithLatest(Recent(e, Len(e)), t) = Recent(Append(e, t), Len(Append(e, t)))
    BY RecentGrows
  <2> QED BY <1>1, <2>1, <2>3, <2>4, <2>5
<1> QED
  BY <1>1, <1>2

LEMMA HistoryInit == Init => HistoryInv
<1> SUFFICES ASSUME Init PROVE HistoryInv
  OBVIOUS
<1>1. GoodHistory(<<>>)
  <2>1. Len(<<>>) = 0 /\ 1 .. 0 = {} /\ 0 <= MaxTicksPerSym
    BY PipelineAssumption
  <2> QED BY <2>1 DEF GoodHistory, InOrder, Past
<1>2. Types
  BY TypesInit
<1> QED
  BY <1>1, <1>2, RecentFirst DEF Init, HistoryInv, Saving

\* The history stays good, and exact while no two loops have met.
LEMMA HistoryNext == HistoryInv /\ [Next]_vars => HistoryInv'
<1> SUFFICES ASSUME HistoryInv, [Next]_vars PROVE HistoryInv'
  OBVIOUS
<1>0. Types /\ Types'
  BY TypesNext DEF HistoryInv
<1>t. /\ history \in Seq(Entry) /\ saved \in Seq(Entry) /\ clean \in BOOLEAN
      /\ \A k \in Loops : loop[k] \in LoopState /\ loop[k].read \in Seq(Entry)
  BY <1>0 DEF Types, LoopState
<1>i. /\ GoodHistory(history)
      /\ \A l \in Loops : GoodHistory(loop[l].read)
      /\ clean => /\ \A k, l \in Saving : k = l
                  /\ history = Recent(saved, Len(saved))
                  /\ \A l \in Saving : loop[l].read \in {history, <<>>}
  BY DEF HistoryInv
<1>e. GoodHistory(<<>>)'
  <2>1. Len(<<>>) = 0 /\ 1 .. 0 = {} /\ 0 <= MaxTicksPerSym
    BY PipelineAssumption
  <2> QED BY <2>1 DEF GoodHistory, InOrder, Past
<1>g. ASSUME \A k \in Loops :
              \/ /\ loop'[k].n = loop[k].n
                 /\ loop'[k].pc \in {"get", "set"} => loop[k].pc \in {"get", "set"}
              \/ loop'[k].n = loop[k].n + 1,
             NEW h \in Seq(Entry), GoodHistory(h)
      PROVE  GoodHistory(h)'
  BY <1>0, <1>g, GoodKept
<1>1. ASSUME NEW l \in Loops, NEW v \in LoopState, SetLoop(l, v), v.read = loop[l].read,
             v.pc # "set", loop[l].pc # "set", historyVars' = historyVars,
             \/ v.n = loop[l].n /\ v.pc # "get"
             \/ v.n = loop[l].n + 1
      PROVE  HistoryInv'
  <2>1. /\ loop'[l] = v /\ \A k \in Loops : k # l => loop'[k] = loop[k]
    BY <1>0, <1>1, TypesLoop
  <2>2. \A k \in Loops :
              \/ /\ loop'[k].n = loop[k].n
                 /\ loop'[k].pc \in {"get", "set"} => loop[k].pc \in {"get", "set"}
              \/ loop'[k].n = loop[k].n + 1
    BY <1>1, <2>1
  <2>3. history' = history /\ saved' = saved /\ clean' = clean
    BY <1>1 DEF historyVars
  <2>4. \A k \in Loops : loop'[k].read = loop[k].read
    BY <1>1, <2>1
  <2>5. Saving' = Saving
    BY <1>1, <2>1 DEF Saving
  <2>6. GoodHistory(history)' /\ \A k \in Loops : GoodHistory(loop[k].read)'
    <3>1. PICK h \in Seq(Entry) : h = history
      BY <1>t
    <3>2. GoodHistory(h)'
      BY <1>g, <1>i, <2>2, <3>1
    <3>3. GoodHistory(history)'
      BY <2>3, <3>1, <3>2 DEF GoodHistory, InOrder, Past
    <3>4. ASSUME NEW k \in Loops PROVE GoodHistory(loop[k].read)'
      <4>1. PICK r \in Seq(Entry) : r = loop[k].read
        BY <1>t
      <4>2. GoodHistory(r)'
        BY <1>g, <1>i, <2>2, <4>1
      <4> QED BY <2>4, <4>1, <4>2 DEF GoodHistory, InOrder, Past
    <3> QED BY <3>3, <3>4
  <2>7. \A k \in Saving : k \in Loops
    BY DEF Saving
  <2> QED BY <1>0, <1>i, <2>3, <2>4, <2>5, <2>6, <2>7 DEF HistoryInv
<1>2. ASSUME NEW l \in Loops, NEW pc \in Pcs, Goto(l, pc), pc \notin {"get", "set"},
             loop[l].pc # "set", historyVars' = historyVars
      PROVE  HistoryInv'
  <2>1. PICK v : v = [loop[l] EXCEPT !.pc = pc]
    OBVIOUS
  <2>2. v \in LoopState /\ v.pc = pc /\ v.read = loop[l].read /\ v.n = loop[l].n /\ SetLoop(l, v)
    BY <1>t, <1>2, <2>1 DEF LoopState, Goto
  <2> QED BY <1>1, <1>2, <2>2
<1>3. ASSUME NEW l \in Loops, Done(l), loop[l].pc # "set", historyVars' = historyVars
      PROVE  HistoryInv'
  <2>1. PICK v : v = [loop[l] EXCEPT !.pc = "range", !.tick = None]
    OBVIOUS
  <2>2. /\ v \in LoopState /\ v.pc = "range" /\ v.read = loop[l].read /\ v.n = loop[l].n
        /\ SetLoop(l, v)
    BY <1>t, <1>3, <2>1 DEF LoopState, Pcs, Done
  <2> QED BY <1>1, <1>3, <2>2
<1>4. ASSUME NEW l \in Loops, Take(l) PROVE HistoryInv'
  <2>1. PICK t \in Tick : SetLoop(l, [loop[l] EXCEPT !.pc = "get", !.tick = t, !.n = @ + 1])
    BY <1>4 DEF Take, Tick
  <2>2. PICK v : v = [loop[l] EXCEPT !.pc = "get", !.tick = t, !.n = @ + 1]
    OBVIOUS
  <2>3. loop[l].n + 1 \in Nat /\ "get" \in Pcs /\ t \in {None} \cup Tick
    BY <1>t DEF LoopState, Pcs
  <2>4. v \in LoopState /\ v.pc = "get" /\ v.read = loop[l].read /\ v.n = loop[l].n + 1
    BY <1>t, <2>2, <2>3 DEF LoopState
  <2> QED BY <1>1, <1>4, <2>1, <2>2, <2>4 DEF Take
<1>5. ASSUME NEW l \in Loops, GetHistory(l) PROVE HistoryInv'
  <2>1. CASE Goto(l, "candle") /\ UNCHANGED clean
    BY <1>2, <1>5, <2>1 DEF GetHistory, historyVars, Pcs
  <2>2. ASSUME NEW h \in {history, <<>>},
               SetLoop(l, [loop[l] EXCEPT !.pc = "set", !.read = h]),
               clean' = (clean /\ Saving = {})
        PROVE  HistoryInv'
    <3>0. \A S : <<>> \in Seq(S)
      OBVIOUS
    <3>1. h \in Seq(Entry)
      BY <1>t, <3>0
    <3>2. PICK v : v = [loop[l] EXCEPT !.pc = "set", !.read = h]
      OBVIOUS
    <3>3. v \in LoopState /\ v.pc = "set" /\ v.read = h /\ v.n = loop[l].n /\ SetLoop(l, v)
      BY <1>t, <2>2, <3>1, <3>2 DEF LoopState, Pcs
    <3>4. /\ loop'[l] = v /\ \A k \in Loops : k # l => loop'[k] = loop[k]
      BY <1>0, <3>3, TypesLoop
    <3>5. history' = history /\ saved' = saved /\ loop[l].pc = "get"
      BY <1>5 DEF GetHistory
    <3>6. \A k \in Loops :
              \/ /\ loop'[k].n = loop[k].n
                 /\ loop'[k].pc \in {"get", "set"} => loop[k].pc \in {"get", "set"}
              \/ loop'[k].n = loop[k].n + 1
      BY <3>3, <3>4, <3>5
    <3>7. PICK g \in Seq(Entry) : g = history
      BY <1>t
    <3>8. GoodHistory(g)'
      BY <1>g, <1>i, <3>6, <3>7
    <3>9. GoodHistory(history)'
      BY <3>5, <3>7, <3>8 DEF GoodHistory, InOrder, Past
    <3>10. GoodHistory(h)'
      BY <1>e, <3>7, <3>8, <2>2
    <3>11. ASSUME NEW k \in Loops PROVE GoodHistory(loop[k].read)'
      <4>1. CASE k = l
        BY <3>3, <3>4, <3>10, <4>1 DEF GoodHistory, InOrder, Past
      <4>2. CASE k # l
        <5>1. PICK r \in Seq(Entry) : r = loop[k].read
          BY <1>t
        <5>2. GoodHistory(r)'
          BY <1>g, <1>i, <3>6, <5>1
        <5> QED BY <3>4, <4>2, <5>1, <5>2 DEF GoodHistory, InOrder, Past
      <4> QED BY <4>1, <4>2
    <3>12. ASSUME clean'
           PROVE  /\ \A k, m \in Saving' : k = m
                  /\ history' = Recent(saved', Len(saved'))
                  /\ \A k \in Saving' : loop'[k].read \in {history', <<>>}
      <4>1. clean /\ Saving = {}
        BY <2>2, <3>12
      <4>2. \A k \in Saving' : k = l
        BY <3>4, <4>1 DEF Saving
      <4> QED BY <1>i, <2>2, <3>3, <3>4, <3>5, <4>1, <4>2
    <3> QED BY <1>0, <3>9, <3>11, <3>12 DEF HistoryInv
  <2> QED BY <1>5, <2>1, <2>2 DEF GetHistory
<1>6. ASSUME NEW l \in Loops, SetHistory(l) PROVE HistoryInv'
  <2>1. PICK v : v = [loop[l] EXCEPT !.pc = "candle", !.read = <<>>]
    OBVIOUS
  <2>0. \A S : <<>> \in Seq(S)
    OBVIOUS
  <2>2. v \in LoopState /\ v.pc = "candle" /\ v.read = <<>> /\ v.n = loop[l].n /\ SetLoop(l, v)
    BY <1>t, <1>6, <2>0, <2>1 DEF LoopState, Pcs, SetHistory
  <2>3. /\ loop'[l] = v /\ \A k \in Loops : k # l => loop'[k] = loop[k]
    BY <1>0, <2>2, TypesLoop
  <2>4. \A k \in Loops :
              \/ /\ loop'[k].n = loop[k].n
                 /\ loop'[k].pc \in {"get", "set"} => loop[k].pc \in {"get", "set"}
              \/ loop'[k].n = loop[k].n + 1
    BY <2>2, <2>3
  <2>5. ASSUME NEW k \in Loops PROVE GoodHistory(loop[k].read)'
    <3>1. CASE k = l
      BY <1>e, <2>2, <2>3, <3>1 DEF GoodHistory, InOrder, Past
    <3>2. CASE k # l
      <4>1. PICK r \in Seq(Entry) : r = loop[k].read
        BY <1>t
      <4>2. GoodHistory(r)'
        BY <1>g, <1>i, <2>4, <4>1
      <4> QED BY <2>3, <3>2, <4>1, <4>2 DEF GoodHistory, InOrder, Past
    <3> QED BY <3>1, <3>2
  <2>6. l \in Saving /\ Saving' = Saving \ {l}
    BY <1>6, <2>2, <2>3 DEF Saving, SetHistory
  <2>7. CASE UNCHANGED historyVars
    <3>1. history' = history /\ saved' = saved /\ clean' = clean
      BY <2>7 DEF historyVars
    <3>2. PICK g \in Seq(Entry) : g = history
      BY <1>t
    <3>3. GoodHistory(g)'
      BY <1>g, <1>i, <2>4, <3>2
    <3>4. GoodHistory(history)'
      BY <3>1, <3>2, <3>3 DEF GoodHistory, InOrder, Past
    <3>5. \A k \in Saving' : k \in Saving /\ k \in Loops /\ loop'[k] = loop[k]
      BY <2>3, <2>6 DEF Saving
    <3> QED BY <1>0, <1>i, <2>5, <3>1, <3>4, <3>5 DEF HistoryInv
  <2>8. CASE ~UNCHANGED historyVars
    <3>1. PICK t \in Entry : t = [loop |-> l, n |-> loop[l].n]
      BY <1>t DEF LoopState, Entry
    <3>2. /\ history' = WithLatest(loop[l].read, t)
          /\ saved' = IF loop[l].read = <<>> THEN <<t>> ELSE Append(saved, t)
          /\ clean' = (clean \/ (loop[l].read = <<>> /\ Saving = {l}))
      BY <1>6, <2>8, <3>1 DEF SetHistory
    <3>3. PICK h \in Seq(Entry) : h = loop[l].read
      BY <1>t
    <3>4. GoodHistory(h) /\ loop[l].pc = "set"
      BY <1>6, <1>i, <3>3 DEF SetHistory
    <3>5. PICK g \in Seq(Entry) : g = WithLatest(h, t)
      BY LatestTyped
    <3>6. /\ Len(g) <= MaxTicksPerSym /\ InOrder(g)
          /\ \A i \in 1 .. Len(g) :
                 /\ g[i].n <= loop[g[i].loop].n
                 /\ g[i].loop # l /\ loop[g[i].loop].pc \in {"get", "set"}
                       => g[i].n < loop[g[i].loop].n
      BY <1>0, <3>1, <3>4, <3>5, LatestInOrder
    <3>7. ASSUME NEW i \in 1 .. Len(g)
          PROVE  /\ g[i].n <= loop'[g[i].loop].n
                 /\ loop'[g[i].loop].pc \in {"get", "set"} => g[i].n < loop'[g[i].loop].n
      <4>1. PICK e \in Entry : e = g[i]
        OBVIOUS
      <4>2. e.loop \in Loops
        BY DEF Entry
      <4>3. /\ e.n <= loop[e.loop].n
            /\ e.loop # l /\ loop[e.loop].pc \in {"get", "set"} => e.n < loop[e.loop].n
        BY <3>6, <4>1
      <4>4. CASE e.loop = l
        BY <2>2, <2>3, <4>1, <4>3, <4>4
      <4>5. CASE e.loop # l
        BY <2>3, <4>1, <4>2, <4>3, <4>5
      <4> QED BY <4>4, <4>5
    <3>8. GoodHistory(history)'
      BY <3>2, <3>3, <3>5, <3>6, <3>7 DEF GoodHistory, InOrder, Past
    <3>9. ASSUME clean'
          PROVE  /\ Saving' = {}
                 /\ history' = Recent(saved', Len(saved'))
      <4>1. Saving = {l}
        BY <1>i, <2>6, <3>2, <3>9
      <4>2. CASE h = <<>>
        <5>1. history' = <<t>> /\ saved' = <<t>>
          BY <3>2, <3>3, <4>2, RecentFirst
        <5> QED BY <2>6, <4>1, <5>1, RecentFirst
      <4>3. CASE h # <<>>
        <5>1. clean /\ h = history /\ history = Recent(saved, Len(saved))
          BY <1>i, <2>6, <3>2, <3>3, <3>9, <4>3
        <5>2. saved' = Append(saved, t) /\ history' = WithLatest(history, t)
          BY <3>2, <3>3, <4>3, <5>1
        <5>3. PICK s \in Seq(Entry) : s = saved
          BY <1>t
        <5>4. WithLatest(Recent(s, Len(s)), t) = Recent(Append(s, t), Len(Append(s, t)))
          BY RecentGrows
        <5> QED BY <2>6, <4>1, <5>1, <5>2, <5>3, <5>4
      <4> QED BY <4>2, <4>3
    <3> QED BY <1>0, <2>5, <3>8, <3>9 DEF HistoryInv
  <2> QED BY <2>7, <2>8
<1>7. ASSUME NEW l \in Loops, AddTick(l) PROVE HistoryInv'
  <2>1. historyVars' = historyVars /\ loop[l].pc # "set"
    BY <1>7 DEF AddTick, CheckCandle, StartCandle, CheckHigh, SetHigh, CheckLow, SetLow, SetClose
  <2>2. Done(l) \/ \E pc \in {"high", "new", "sethigh", "low", "setlow", "close"} : Goto(l, pc)
    BY <1>7 DEF AddTick, CheckCandle, StartCandle, CheckHigh, SetHigh, CheckLow, SetLow, SetClose
  <2> QED BY <1>2, <1>3, <2>1, <2>2 DEF Pcs
<1>8. CASE UNCHANGED <<loop, historyVars>>
  BY <1>0, <1>i, <1>8 DEF historyVars, HistoryInv, GoodHistory, InOrder, Past, Saving
<1>9. CASE ExchangeChart \/ MockChart \/ UNCHANGED vars
  BY <1>8, <1>9 DEF ExchangeChart, MockChart, vars
<1> QED
  BY <1>4, <1>5, <1>6, <1>7, <1>9 DEF Next, ProcessTick

(***************************************************************************)
(* However many loops of a symbol overwrite one another's history, no tick *)
(* is in it twice or out of its loop's order and the limit is kept; as     *)
(* long as no two of them were between Get and Set it holds exactly the    *)
(* latest ticks (addToTickHistory).                                        *)
(***************************************************************************)
THEOREM PipelineHistory == Spec => []HistoryIsRecentTicks
<1>1. HistoryInv => HistoryIsRecentTicks
  <2> SUFFICES ASSUME HistoryInv PROVE HistoryIsRecentTicks
    OBVIOUS
  <2>1. PICK s \in Seq(Entry), n \in Nat, M \in Nat \ {0} :
          s = saved /\ n = Len(saved) /\ n \in 0 .. Len(s) /\ M = MaxTicksPerSym
    <3>1. saved \in Seq(Entry) /\ Len(saved) \in Nat /\ Len(saved) \in 0 .. Len(saved)
      BY DEF HistoryInv, Types
    <3>2. MaxTicksPerSym \in Nat \ {0}
      BY PipelineAssumption
    <3> QED BY <3>1, <3>2
  <2>2. Len(Recent(s, n)) = Kept(n)
    BY <2>1, RecentTyped
  <2>3. Min({n, M}) = Kept(n)
    <3>1. PICK S, x : S = {n, M} /\ x = Kept(n)
      OBVIOUS
    <3>2. S \subseteq Int /\ x \in S /\ \A y \in S : x <= y
      BY <2>1, <3>1 DEF Kept
    <3>3. Min(S) = x
      BY ONLY <3>2, MinIs
    <3> QED BY <3>1, <3>3
  <2>4. IsSuffix(Recent(s, n), s)
    BY <2>1, RecentIsSuffix
  <2> QED BY <2>1, <2>2, <2>3, <2>4 DEF HistoryInv, GoodHistory, InOrder, HistoryIsRecentTicks
<1> QED
  BY <1>1, HistoryInit, HistoryNext, PTL DEF Spec

-----------------------------------------------------------------------------
(* The candle under racing loops. *)

\* A series of ticks has a bar.
LEMMA BarTyped ==
    ASSUME NEW s \in Seq(Tick), s # <<>>
    PROVE  LET prices == {s[i].price : i \in 1 .. Len(s)}
           IN  /\ BarOf(s) \in Candle /\ BarOf(s) # None
               /\ prices \subseteq Nat
               /\ Max(prices) \in prices /\ \A y \in prices : y <= Max(prices)
               /\ Min(prices) \in prices /\ \A y \in prices : Min(prices) <= y
<1> DEFINE prices == {s[i].price : i \in 1 .. Len(s)}
<1>1. PICK n \in Nat : n = Len(s) /\ 1 \in 1 .. n /\ n \in 1 .. n
  OBVIOUS
<1>2. \A i \in 1 .. n : s[i].price \in Nat /\ AlignTime(s[i].ts) \in Int
  <2>1. \A i \in 1 .. n : s[i] \in Tick
    BY <1>1
  <2> QED BY <2>1, NewTyped
<1>3. prices \subseteq Int /\ prices \subseteq Nat /\ s[1].price \in prices /\ prices # {}
  BY <1>1, <1>2
<1>4. IsFiniteSet(prices)
  <2> DEFINE f == [i \in 1 .. n |-> s[i].price]
  <2>1. f \in Surjection(1 .. n, prices)
    BY <1>1 DEF Surjection
  <2> HIDE DEF f
  <2>2. IsFiniteSet(1 .. n)
    BY FS_Interval
  <2> QED BY <2>1, <2>2, FS_Surjection
<1> HIDE DEF prices
<1>5. /\ Max(prices) \in prices /\ \A y \in prices : y <= Max(prices)
      /\ Min(prices) \in prices /\ \A y \in prices : Min(prices) <= y
  BY <1>3, <1>4, MaxMin
<1>6. PICK a \in Int, b \in Int : a = Max(prices) /\ b = Min(prices)
  BY <1>3, <1>5
<1>7. PICK o \in Int, c \in Int, t \in Int :
        o = s[1].price /\ c = s[Len(s)].price /\ t = AlignTime(s[1].ts)
  BY <1>1, <1>2
<1>8. BarOf(s) = [time |-> t, open |-> o, close |-> c, high |-> a, low |-> b]
  BY <1>6, <1>7 DEF BarOf, prices
<1>9. BarOf(s) \in Candle
  BY <1>8 DEF Candle
<1> QED
  BY <1>3, <1>5, <1>9, CandleAssumption DEF prices

\* the candle once its high, and once its low too, is that of a price more
Higher(b, p) == [b EXCEPT !.high = IF p > b.high THEN p ELSE b.high]

Wider(b, p) == [Higher(b, p) EXCEPT !.low = IF p < b.low THEN p ELSE b.low]

\* The bar of a tick more.
LEMMA BarGrows ==
    ASSUME NEW s \in Seq(Tick), s # <<>>, NEW t \in Tick
    PROVE  BarOf(Append(s, t)) = [Wider(BarOf(s), t.price) EXCEPT !.close = t.price]
<1> DEFINE prices == {s[i].price : i \in 1 .. Len(s)}
<1>1. PICK n \in Nat : n = Len(s) /\ 1 \in 1 .. n /\ n \in 1 .. n
  OBVIOUS
<1>2. PICK r \in Seq(Tick) : /\ r = Append(s, t) /\ Len(r) = n + 1 /\ r[n + 1] = t
                             /\ \A j \in 1 .. n : r[j] = s[j]
  <2>1. /\ Append(s, t) \in Seq(Tick) /\ Len(Append(s, t)) = Len(s) + 1
        /\ Append(s, t)[Len(s) + 1] = t
        /\ \A j \in 1 .. Len(s) : Append(s, t)[j] = s[j]
    OBVIOUS
  <2> QED BY <1>1, <2>1
<1>3. {r[i].price : i \in 1 .. Len(r)} = prices \cup {t.price}
  <2>1. ASSUME NEW i \in 1 .. n + 1 PROVE r[i].price \in prices \cup {t.price}
    <3>1. CASE i = n + 1
      BY <1>2, <3>1
    <3>2. CASE i # n + 1
      <4>1. i \in 1 .. n
        BY <3>2
      <4>2. s[i].price \in prices
        BY <1>1, <4>1
      <4> QED BY <1>2, <4>1, <4>2
    <3> QED BY <3>1, <3>2
  <2>2. ASSUME NEW i \in 1 .. n PROVE s[i].price \in {r[j].price : j \in 1 .. Len(r)}
    <3>1. i \in 1 .. Len(r) /\ r[i] = s[i]
      BY <1>1, <1>2
    <3> QED BY <3>1
  <2>3. t.price \in {r[j].price : j \in 1 .. Len(r)}
    <3>1. n + 1 \in 1 .. Len(r) /\ r[n + 1] = t
      BY <1>1, <1>2
    <3> QED BY <3>1
  <2> QED BY <1>1, <1>2, <2>1, <2>2, <2>3
<1>4. /\ prices \subseteq Nat
      /\ Max(prices) \in prices /\ \A y \in prices : y <= Max(prices)
      /\ Min(prices) \in prices /\ \A y \in prices : Min(prices) <= y
  BY BarTyped
<1>5. PICK o, c : BarOf(s) = [time |-> AlignTime(s[1].ts), open |-> o, close |-> c,
                              high |-> Max(prices), low |-> Min(prices)] /\ o = s[1].price
  BY DEF BarOf
<1> HIDE DEF prices
<1>6. PICK p \in Nat : p = t.price
  BY NewTyped
<1>7. /\ Max(prices \cup {p}) = IF p > Max(prices) THEN p ELSE Max(prices)
      /\ Min(prices \cup {p}) = IF p < Min(prices) THEN p ELSE Min(prices)
  BY <1>4, BoundsGrow
<1>8. BarOf(r) = [time |-> AlignTime(r[1].ts), open |-> r[1].price, close |-> r[n + 1].price,
                  high |-> Max(prices \cup {p}), low |-> Min(prices \cup {p})]
  BY <1>2, <1>3, <1>6 DEF BarOf
<1>9. r[1] = s[1] /\ r[n + 1] = t
  BY <1>1, <1>2
<1>10. PICK a, b : a = Max(prices) /\ b = Min(prices)
  OBVIOUS
<1>11. Higher(BarOf(s), p) = [time |-> AlignTime(s[1].ts), open |-> o, close |-> c,
                              high |-> IF p > a THEN p ELSE a, low |-> b]
  BY <1>5, <1>10 DEF Higher
<1>12. Wider(BarOf(s), p) = [time |-> AlignTime(s[1].ts), open |-> o, close |-> c,
                             high |-> IF p > a THEN p ELSE a, low |-> IF p < b THEN p ELSE b]
  BY <1>5, <1>10, <1>11 DEF Wider
<1>13. [Wider(BarOf(s), p) EXCEPT !.close = p]
          = [time |-> AlignTime(s[1].ts), open |-> o, close |-> p,
             high |-> IF p > a THEN p ELSE a, low |-> IF p < b THEN p ELSE b]
  BY <1>12
<1>14. BarOf(r) = [time |-> AlignTime(s[1].ts), open |-> o, close |-> p,
                   high |-> IF p > a THEN p ELSE a, low |-> IF p < b THEN p ELSE b]
  BY <1>5, <1>6, <1>7, <1>8, <1>9, <1>10
<1> QED
  BY <1>2, <1>6, <1>13, <1>14

\* The bar of a single tick is the candle it starts.
LEMMA BarOfOne ==
    ASSUME NEW t \in Tick
    PROVE  BarOf(<<t>>) = NewCandle(t) /\ <<t>> # <<>>
<1>1. <<t>> # <<>> /\ Len(<<t>>) = 1 /\ <<t>>[1] = t
  OBVIOUS
<1>2. {<<t>>[i].price : i \in 1 .. Len(<<t>>)} = {t.price}
  BY <1>1
<1>3. Max({t.price}) = t.price /\ Min({t.price}) = t.price
  BY NewTyped, SingleBounds
<1> QED
  BY <1>1, <1>2, <1>3 DEF BarOf, NewCandle

\* how far the loop in AddTick has come, if it has the candle to itself
Stage(l) ==
    LET b == BarOf(seen)
        p == loop[l].tick.price
    IN  /\ loop[l].pc = "new" /\ seen # <<>> => candle = b
        /\ loop[l].pc \in Fields => seen # <<>> /\ AlignTime(loop[l].tick.ts) = candle.time
        /\ loop[l].pc = "high" => candle = b
        /\ loop[l].pc = "sethigh" => candle = b /\ p > b.high
        /\ loop[l].pc = "low" => candle = Higher(b, p)
        /\ loop[l].pc = "setlow" => candle = Higher(b, p) /\ p < b.low
        /\ loop[l].pc = "close" => candle = Wider(b, p)

\* two loops in AddTick make the candle a torn one; otherwise the candle is the bar of
\* its ticks, as far as the loop inside has come with its own
CandleInv ==
    /\ Types
    /\ \A l \in Adding : (alone => Adding = {l}) /\ (~alone => torn)
    /\ ~torn => /\ seen = <<>> => candle = None
                /\ \A i \in 1 .. Len(seen) : AlignTime(seen[i].ts) = candle.time
                /\ Adding = {} /\ seen # <<>> => candle = BarOf(seen)
                /\ \A l \in Adding : Stage(l)

\* The steps that test and write the fields, taken by a loop that is by itself.
LEMMA FieldSteps ==
    ASSUME NEW b \in Candle, NEW p \in Int
    PROVE  /\ p > b.high => [b EXCEPT !.high = p] = Higher(b, p)
           /\ ~(p > b.high) => b = Higher(b, p)
           /\ Higher(b, p).low = b.low /\ Higher(b, p).time = b.time
           /\ p < b.low => [Higher(b, p) EXCEPT !.low = p] = Wider(b, p)
           /\ ~(p < b.low) => Higher(b, p) = Wider(b, p)
           /\ Wider(b, p).time = b.time
           /\ [Wider(b, p) EXCEPT !.close = p].time = b.time
<1>1. PICK h \in Candle : /\ h = Higher(b, p) /\ h.low = b.low /\ h.time = b.time
  <2>1. Higher(b, p) \in Candle /\ Higher(b, p).low = b.low /\ Higher(b, p).time = b.time
    BY DEF Higher, Candle
  <2> QED BY <2>1
<1>2. p > b.high => [b EXCEPT !.high = p] = Higher(b, p)
  BY DEF Higher
<1>3. ~(p > b.high) => b = Higher(b, p)
  BY DEF Higher, Candle
<1>4. p < b.low => [h EXCEPT !.low = p] = Wider(b, p)
  BY <1>1 DEF Wider
<1>5. ~(p < b.low) => h = Wider(b, p)
  BY <1>1 DEF Wider, Candle
<1>6. /\ Wider(b, p).time = b.time
      /\ [Wider(b, p) EXCEPT !.close = p].time = b.time
  BY <1>1 DEF Wider, Candle
<1> QED
  BY <1>1, <1>2, <1>3, <1>4, <1>5, <1>6

LEMMA CandleInit == Init => CandleInv
<1> SUFFICES ASSUME Init PROVE CandleInv
  OBVIOUS
<1>1. Adding = {}
  BY DEF Init, Adding
<1>2. Types
  BY TypesInit
<1>3. seen = <<>> /\ candle = None /\ Len(seen) = 0 /\ 1 .. 0 = {}
  BY DEF Init
<1> QED
  BY <1>1, <1>2, <1>3 DEF CandleInv

\* Every step of a loop keeps the candle's invariant.
LEMMA CandleNext == CandleInv /\ [Next]_vars => CandleInv'
<1> SUFFICES ASSUME CandleInv, [Next]_vars PROVE CandleInv'
  OBVIOUS
<1>0. Types /\ Types'
  BY TypesNext DEF CandleInv
<1>t. /\ \A k \in Loops : loop[k] \in LoopState
      /\ \A k \in Loops : loop[k].pc # "range" => loop[k].tick \in Tick
      /\ seen \in Seq(Tick) /\ torn \in BOOLEAN /\ alone \in BOOLEAN
  BY <1>0 DEF Types
<1>i. /\ \A l \in Adding : (alone => Adding = {l}) /\ (~alone => torn)
      /\ ~torn => /\ seen = <<>> => candle = None
                  /\ \A i \in 1 .. Len(seen) : AlignTime(seen[i].ts) = candle.time
                  /\ Adding = {} /\ seen # <<>> => candle = BarOf(seen)
                  /\ \A l \in Adding : Stage(l)
  BY DEF CandleInv
<1>a. \A k : k \in Adding <=> k \in Loops /\ loop[k].pc \in {"new"} \cup Fields
  BY DEF Adding, Fields
<1>b. \A k : k \in Adding' <=> k \in Loops /\ loop'[k].pc \in {"new"} \cup Fields
  BY DEF Adding, Fields
<1>1. ASSUME NEW l \in Loops, NEW v \in LoopState, SetLoop(l, v), l \notin Adding,
             v.pc \notin {"new"} \cup Fields, candleVars' = candleVars
      PROVE  CandleInv'
  <2>1. loop'[l] = v /\ \A k \in Loops : k # l => loop'[k] = loop[k]
    BY <1>0, <1>1, TypesLoop
  <2>2. candle' = candle /\ seen' = seen /\ torn' = torn /\ alone' = alone
    BY <1>1 DEF candleVars
  <2>3. Adding' = Adding
    BY <1>1, <1>a, <1>b, <2>1
  <2>4. \A k \in Adding : loop'[k] = loop[k]
    BY <1>1, <1>a, <2>1
  <2>5. \A k \in Adding : Stage(k) => Stage(k)'
    BY <2>2, <2>4 DEF Stage
  <2> QED BY <1>0, <1>i, <2>2, <2>3, <2>5 DEF CandleInv
<1>2. ASSUME NEW l \in Loops, NEW pc \in Fields, Goto(l, pc), loop[l].pc \in Fields,
             seen' = seen, torn' = torn, alone' = alone,
             /\ ~torn /\ Adding = {l} /\ Stage(l) /\ seen # <<>> /\ loop'[l] = [loop[l] EXCEPT !.pc = pc]
                  => Stage(l)' /\ candle'.time = candle.time
      PROVE  CandleInv'
  <2>1. PICK v : v = [loop[l] EXCEPT !.pc = pc]
    OBVIOUS
  <2>2. v \in LoopState /\ v.pc = pc /\ SetLoop(l, v)
    BY <1>t, <1>2, <2>1 DEF LoopState, Goto, Pcs, Fields
  <2>3. loop'[l] = v /\ \A k \in Loops : k # l => loop'[k] = loop[k]
    BY <1>0, <2>2, TypesLoop
  <2>4. Adding' = Adding /\ l \in Adding
    BY <1>2, <1>a, <1>b, <2>2, <2>3
  <2>5. ~torn => Adding = {l} /\ Stage(l) /\ seen # <<>>
    BY <1>2, <1>i, <2>4 DEF Stage
  <2>6. ~torn => Stage(l)' /\ candle'.time = candle.time
    BY <1>2, <2>1, <2>3, <2>5
  <2> QED BY <1>0, <1>2, <1>i, <2>4, <2>5, <2>6 DEF CandleInv
<1>3. ASSUME NEW l \in Loops, CheckCandle(l) PROVE CandleInv'
  <2>1. PICK pc \in {"high", "new"} :
          /\ Goto(l, pc)
          /\ pc = "high" <=> candle # None /\ candle.time = AlignTime(loop[l].tick.ts)
    BY <1>3 DEF CheckCandle
  <2>2. PICK v : v = [loop[l] EXCEPT !.pc = pc]
    OBVIOUS
  <2>3. v \in LoopState /\ v.pc = pc /\ v.tick = loop[l].tick /\ SetLoop(l, v)
    BY <1>t, <2>1, <2>2 DEF LoopState, Goto, Pcs
  <2>4. loop'[l] = v /\ \A k \in Loops : k # l => loop'[k] = loop[k]
    BY <1>0, <2>3, TypesLoop
  <2>5. /\ l \notin Adding /\ Adding' = Adding \cup {l}
    <3>1. loop[l].pc = "candle" /\ pc \in {"new"} \cup Fields
      BY <1>3 DEF CheckCandle, Fields
    <3>2. l \notin Adding
      BY <1>a, <3>1 DEF Fields
    <3> QED BY <1>a, <1>b, <2>3, <2>4, <3>1, <3>2
  <2>6. /\ candle' = candle /\ seen' = seen
        /\ alone' = (Adding = {}) /\ torn' = (torn \/ Adding # {})
    BY <1>3 DEF CheckCandle
  <2>7. \A k \in Adding' : (alone' => Adding' = {k}) /\ (~alone' => torn')
    BY <2>5, <2>6
  <2>8. ASSUME ~torn'
        PROVE  Adding' = {l} /\ Stage(l)'
    <3>1. ~torn /\ Adding = {} /\ Adding' = {l}
      BY <2>5, <2>6, <2>8
    <3>2. /\ seen = <<>> => candle = None
          /\ seen # <<>> => candle = BarOf(seen)
      BY <1>i, <3>1
    <3>3. Stage(l)'
      BY <2>1, <2>3, <2>4, <2>6, <3>2 DEF Stage, Fields
    <3> QED BY <3>1, <3>3
  <2>9. ~torn' => ~torn
    BY <2>6
  <2> QED BY <1>0, <1>i, <2>6, <2>7, <2>8, <2>9 DEF CandleInv
<1>4. ASSUME NEW l \in Loops, Done(l), l \in Adding
      PROVE  Adding' = Adding \ {l}
  <2>1. PICK v : v = [loop[l] EXCEPT !.pc = "range", !.tick = None]
    OBVIOUS
  <2>2. v \in LoopState /\ v.pc = "range" /\ SetLoop(l, v)
    BY <1>t, <1>4, <2>1 DEF LoopState, Pcs, Done
  <2>3. loop'[l] = v /\ \A k \in Loops : k # l => loop'[k] = loop[k]
    BY <1>0, <2>2, TypesLoop
  <2>4. v.pc \notin {"new"} \cup Fields
    BY <2>2 DEF Fields
  <2> QED BY <1>a, <1>b, <2>3, <2>4
<1>5. ASSUME NEW l \in Loops, StartCandle(l) PROVE CandleInv'
  <2>1. l \in Adding /\ Done(l)
    BY <1>5, <1>a DEF StartCandle
  <2>2. Adding' = Adding \ {l}
    BY <1>4, <2>1
  <2>3. /\ candle' = NewCandle(loop[l].tick) /\ alone' = alone /\ torn' = ~alone
        /\ seen' = IF alone THEN <<loop[l].tick>> ELSE <<>>
    BY <1>5 DEF StartCandle
  <2>4. PICK t \in Tick : t = loop[l].tick
    BY <1>5, <1>t DEF StartCandle
  <2>5. CASE ~alone
    BY <1>0, <2>2, <2>3, <2>5 DEF CandleInv
  <2>6. CASE alone
    <3>1. Adding' = {}
      BY <1>i, <2>1, <2>2, <2>6
    <3>2. seen' = <<t>> /\ candle' = BarOf(seen') /\ seen' # <<>>
      BY <2>3, <2>4, <2>6, BarOfOne
    <3>3. Len(seen') = 1 /\ seen'[1] = t /\ candle'.time = AlignTime(t.ts)
      <4>1. Len(<<t>>) = 1 /\ <<t>>[1] = t
        OBVIOUS
      <4> QED BY <2>3, <2>4, <3>2, <4>1 DEF NewCandle
    <3>4. \A i \in 1 .. Len(seen') : AlignTime(seen'[i].ts) = candle'.time
      BY <3>3
    <3> QED BY <1>0, <3>1, <3>2, <3>4 DEF CandleInv
  <2> QED BY <2>5, <2>6
<1>6. ASSUME NEW l \in Loops, loop[l].pc \in Fields, ~torn, seen # <<>>
      PROVE  /\ BarOf(seen) \in Candle /\ loop[l].tick \in Tick /\ loop[l].tick.price \in Int
             /\ \A pc \in Pcs : LET v == [loop[l] EXCEPT !.pc = pc]
                                IN  v.pc = pc /\ v.tick = loop[l].tick
  <2>1. loop[l].tick \in Tick /\ loop[l] \in LoopState
    BY <1>6, <1>t DEF Fields
  <2>2. loop[l].tick.price \in Int
    BY <2>1, NewTyped
  <2>3. BarOf(seen) \in Candle
    BY <1>6, <1>t, BarTyped
  <2> QED BY <2>1, <2>2, <2>3 DEF LoopState
<1>7. ASSUME NEW l \in Loops, CheckHigh(l) PROVE CandleInv'
  <2>1. PICK pc \in {"sethigh", "low"} :
          Goto(l, pc) /\ (pc = "sethigh" <=> loop[l].tick.price > candle.high)
    BY <1>7 DEF CheckHigh
  <2>2. /\ pc \in Fields /\ pc \in Pcs /\ loop[l].pc \in Fields /\ loop[l].pc = "high"
        /\ candle' = candle /\ seen' = seen /\ torn' = torn /\ alone' = alone
    BY <1>7 DEF CheckHigh, candleVars, Fields, Pcs
  <2>3. ASSUME ~torn, Stage(l), seen # <<>>, loop'[l] = [loop[l] EXCEPT !.pc = pc]
        PROVE  Stage(l)' /\ candle'.time = candle.time
    <3>1. PICK b \in Candle, p \in Int : b = BarOf(seen) /\ p = loop[l].tick.price
      BY <1>6, <2>2, <2>3
    <3>2. loop'[l].pc = pc /\ loop'[l].tick = loop[l].tick
      BY <1>6, <2>2, <2>3
    <3>3. candle = b /\ AlignTime(loop[l].tick.ts) = candle.time
      BY <2>2, <2>3, <3>1 DEF Stage
    <3>4. ~(p > b.high) => b = Higher(b, p)
      BY FieldSteps
    <3> QED BY <2>1, <2>2, <2>3, <3>1, <3>2, <3>3, <3>4 DEF Stage
  <2> QED BY <1>2, <2>1, <2>2, <2>3
<1>8. ASSUME NEW l \in Loops, SetHigh(l) PROVE CandleInv'
  <2>2. /\ "low" \in Fields /\ "low" \in Pcs /\ loop[l].pc \in Fields /\ loop[l].pc = "sethigh"
        /\ candle' = [candle EXCEPT !.high = loop[l].tick.price]
        /\ seen' = seen /\ torn' = torn /\ alone' = alone /\ Goto(l, "low")
    BY <1>8 DEF SetHigh, Fields, Pcs
  <2>3. ASSUME ~torn, Stage(l), seen # <<>>, loop'[l] = [loop[l] EXCEPT !.pc = "low"]
        PROVE  Stage(l)' /\ candle'.time = candle.time
    <3>1. PICK b \in Candle, p \in Int : b = BarOf(seen) /\ p = loop[l].tick.price
      BY <1>6, <2>2, <2>3
    <3>2. loop'[l].pc = "low" /\ loop'[l].tick = loop[l].tick
      BY <1>6, <2>2, <2>3
    <3>3. candle = b /\ p > b.high /\ AlignTime(loop[l].tick.ts) = candle.time
      BY <2>2, <2>3, <3>1 DEF Stage
    <3>4. candle' = Higher(b, p) /\ candle'.time = candle.time
      BY <2>2, <3>1, <3>3, FieldSteps
    <3> QED BY <2>2, <2>3, <3>1, <3>2, <3>3, <3>4 DEF Stage
  <2> QED BY <1>2, <2>2, <2>3
<1>9. ASSUME NEW l \in Loops, CheckLow(l) PROVE CandleInv'
  <2>1. PICK pc \in {"setlow", "close"} :
          Goto(l, pc) /\ (pc = "setlow" <=> loop[l].tick.price < candle.low)
    BY <1>9 DEF CheckLow
  <2>2. /\ pc \in Fields /\ pc \in Pcs /\ loop[l].pc \in Fields /\ loop[l].pc = "low"
        /\ candle' = candle /\ seen' = seen /\ torn' = torn /\ alone' = alone
    BY <1>9 DEF CheckLow, candleVars, Fields, Pcs
  <2>3. ASSUME ~torn, Stage(l), seen # <<>>, loop'[l] = [loop[l] EXCEPT !.pc = pc]
        PROVE  Stage(l)' /\ candle'.time = candle.time
    <3>1. PICK b \in Candle, p \in Int : b = BarOf(seen) /\ p = loop[l].tick.price
      BY <1>6, <2>2, <2>3
    <3>2. loop'[l].pc = pc /\ loop'[l].tick = loop[l].tick
      BY <1>6, <2>2, <2>3
    <3>3. candle = Higher(b, p) /\ AlignTime(loop[l].tick.ts) = candle.time
      BY <2>2, <2>3, <3>1 DEF Stage
    <3>4. candle.low = b.low /\ (~(p < b.low) => candle = Wider(b, p))
      BY <3>3, FieldSteps
    <3> QED BY <2>1, <2>2, <2>3, <3>1, <3>2, <3>3, <3>4 DEF Stage
  <2> QED BY <1>2, <2>1, <2>2, <2>3
<1>10. ASSUME NEW l \in Loops, SetLow(l) PROVE CandleInv'
  <2>2. /\ "close" \in Fields /\ "close" \in Pcs /\ loop[l].pc \in Fields /\ loop[l].pc = "setlow"
        /\ candle' = [candle EXCEPT !.low = loop[l].tick.price]
        /\ seen' = seen /\ torn' = torn /\ alone' = alone /\ Goto(l, "close")
    BY <1>10 DEF SetLow, Fields, Pcs
  <2>3. ASSUME ~torn, Stage(l), seen # <<>>, loop'[l] = [loop[l] EXCEPT !.pc = "close"]
        PROVE  Stage(l)' /\ candle'.time = candle.time
    <3>1. PICK b \in Candle, p \in Int : b = BarOf(seen) /\ p = loop[l].tick.price
      BY <1>6, <2>2, <2>3
    <3>2. loop'[l].pc = "close" /\ loop'[l].tick = loop[l].tick
      BY <1>6, <2>2, <2>3
    <3>3. candle = Higher(b, p) /\ p < b.low /\ AlignTime(loop[l].tick.ts) = candle.time
      BY <2>2, <2>3, <3>1 DEF Stage
    <3>4. candle' = Wider(b, p) /\ candle'.time = candle.time
      BY <2>2, <3>1, <3>3, FieldSteps
    <3> QED BY <2>2, <2>3, <3>1, <3>2, <3>3, <3>4 DEF Stage
  <2> QED BY <1>2, <2>2, <2>3
<1>11. ASSUME NEW l \in Loops, SetClose(l) PROVE CandleInv'
  <2>1. /\ l \in Adding /\ Done(l) /\ loop[l].pc = "close" /\ loop[l].pc \in Fields
        /\ candle' = [candle EXCEPT !.close = loop[l].tick.price]
        /\ seen' = (IF torn THEN <<>> ELSE Append(seen, loop[l].tick))
        /\ torn' = torn /\ alone' = alone
    BY <1>11, <1>a DEF SetClose, Fields
  <2>2. Adding' = Adding \ {l}
    BY <1>4, <2>1
  <2>3. CASE torn
    BY <1>0, <1>i, <2>1, <2>2, <2>3 DEF CandleInv
  <2>4. CASE ~torn
    <3>1. Adding' = {} /\ Stage(l) /\ seen # <<>>
      BY <1>i, <2>1, <2>2, <2>4 DEF Stage
    <3>2. PICK b \in Candle, p \in Int, t \in Tick :
            b = BarOf(seen) /\ p = loop[l].tick.price /\ t = loop[l].tick
      BY <1>6, <2>1, <2>4, <3>1
    <3>3. candle = Wider(b, p) /\ AlignTime(t.ts) = candle.time
      BY <2>1, <3>1, <3>2 DEF Stage
    <3>4. candle' = [Wider(b, p) EXCEPT !.close = p] /\ candle'.time = candle.time
      BY <2>1, <3>2, <3>3, FieldSteps
    <3>5. PICK s \in Seq(Tick) : s = seen /\ s # <<>>
      BY <1>t, <3>1
    <3>6. PICK r \in Seq(Tick) : /\ r = Append(s, t) /\ Len(r) = Len(s) + 1 /\ r[Len(s) + 1] = t
                                 /\ (\A i \in 1 .. Len(s) : r[i] = s[i]) /\ r # <<>>
      <4>1. /\ Append(s, t) \in Seq(Tick) /\ Len(Append(s, t)) = Len(s) + 1
            /\ Append(s, t)[Len(s) + 1] = t /\ Append(s, t) # <<>>
            /\ \A i \in 1 .. Len(s) : Append(s, t)[i] = s[i]
        OBVIOUS
      <4> QED BY <4>1
    <3>7. candle' = BarOf(r)
      BY <3>2, <3>4, <3>5, <3>6, BarGrows
    <3>8. seen' = r
      BY <2>1, <2>4, <3>2, <3>5, <3>6
    <3>9. ASSUME NEW i \in 1 .. Len(r) PROVE AlignTime(r[i].ts) = candle'.time
      <4>1. CASE i = Len(s) + 1
        BY <3>3, <3>4, <3>6, <4>1
      <4>2. CASE i # Len(s) + 1
        <5>1. i \in 1 .. Len(s) /\ r[i] = s[i]
          BY <3>6, <4>2
        <5> QED BY <1>i, <2>4, <3>4, <3>5, <5>1
      <4> QED BY <4>1, <4>2
    <3> QED BY <1>0, <3>1, <3>6, <3>7, <3>8, <3>9 DEF CandleInv
  <2> QED BY <2>3, <2>4
<1>12. ASSUME NEW l \in Loops, Take(l) \/ GetHistory(l) \/ SetHistory(l) PROVE CandleInv'
  <2>1. /\ loop[l].pc \notin {"new"} \cup Fields /\ candleVars' = candleVars
    BY <1>12 DEF Take, GetHistory, SetHistory, Fields
  <2>2. PICK v : SetLoop(l, v) /\ v.pc \in {"get", "set", "candle"}
    <3>1. ASSUME NEW t \in Tick
          PROVE  [loop[l] EXCEPT !.pc = "get", !.tick = t, !.n = @ + 1].pc = "get"
      BY <1>t DEF LoopState
    <3>2. ASSUME NEW h
          PROVE  /\ [loop[l] EXCEPT !.pc = "set", !.read = h].pc = "set"
                 /\ [loop[l] EXCEPT !.pc = "candle", !.read = h].pc = "candle"
                 /\ [loop[l] EXCEPT !.pc = "candle"].pc = "candle"
      BY <1>t DEF LoopState
    <3>3. CASE Take(l)
      BY <3>1, <3>3 DEF Take, Tick
    <3>4. CASE GetHistory(l)
      <4>1. \/ \E h : SetLoop(l, [loop[l] EXCEPT !.pc = "set", !.read = h])
            \/ SetLoop(l, [loop[l] EXCEPT !.pc = "candle"])
        BY ONLY <3>4 DEF GetHistory, Goto
      <4> QED BY ONLY <3>2, <4>1
    <3>5. CASE SetHistory(l)
      <4>1. SetLoop(l, [loop[l] EXCEPT !.pc = "candle", !.read = <<>>])
        BY ONLY <3>5 DEF SetHistory
      <4> QED BY ONLY <3>2, <4>1
    <3> QED BY <1>12, <3>3, <3>4, <3>5
  <2>3. v \in LoopState
    <3>1. loop' = [loop EXCEPT ![l] = v] /\ loop \in [Loops -> LoopState] /\ loop' \in [Loops -> LoopState]
      BY <1>0, <2>2 DEF SetLoop, Types
    <3> QED BY <3>1
  <2> QED BY <1>1, <1>a, <2>1, <2>2, <2>3 DEF Fields
<1>13. CASE UNCHANGED <<loop, candleVars>>
  BY <1>0, <1>i, <1>13 DEF candleVars, CandleInv, Adding, Stage
<1>14. CASE ExchangeChart \/ MockChart \/ UNCHANGED vars
  BY <1>13, <1>14 DEF ExchangeChart, MockChart, vars
<1> QED
  BY <1>3, <1>5, <1>7, <1>8, <1>9, <1>10, <1>11, <1>12, <1>14 DEF Next, ProcessTick, AddTick

(***************************************************************************)
(* However many loops of a symbol go on side by side, the candle is the    *)
(* bar of the ticks of its interval unless two of them were inside AddTick *)
(* at once since it was started (AddTick, updateCandleAggregators).        *)
(***************************************************************************)
THEOREM PipelineBars == Spec => []CandleIsBarOfTicks
<1>1. CandleInv => CandleIsBarOfTicks
  BY DEF CandleInv, CandleIsBarOfTicks
<1> QED
  BY <1>1, CandleInit, CandleNext, PTL DEF Spec

-----------------------------------------------------------------------------
(* The chart, whenever it is asked for. *)

\* The bars of the exchange make a chart.
LEMMA ExchangeBars ==
    ASSUME NEW klines \in Klines, HistoryOf(klines) # <<>>
    PROVE  /\ HistoryOf(klines) \in Seq(GoodBar)
           /\ \A i \in 1 .. Len(HistoryOf(klines)) : HistoryOf(klines)[i].time % Interval = 0
<1>1. klines # None
  BY DEF HistoryOf
<1>2. klines \in Seq({None} \cup GoodBar)
  BY <1>1, PipelineAssumption
<1>3. PICK data \in Seq(AlignedBar) : data = HistoryOf(klines)
  BY <1>1, <1>2, KlinesParsed DEF HistoryOf
<1>4. \A b \in AlignedBar : b \in GoodBar /\ b.time % Interval = 0
  BY NoRemainder DEF AlignedBar
<1>5. data \in Seq(GoodBar)
  <2>1. Len(data) \in Nat /\ data \in [1 .. Len(data) -> GoodBar]
    BY <1>4
  <2> QED BY <2>1
<1>6. \A i \in 1 .. Len(data) : data[i] \in AlignedBar
  OBVIOUS
<1> QED
  BY <1>3, <1>4, <1>5, <1>6

\* The walks the generator is given are walks.
LEMMA WalksMove == \A moves \in Walks : moves \in Moves
<1> SUFFICES ASSUME NEW moves \in Walks PROVE moves \in Moves
  OBVIOUS
<1>1. Prices \subseteq Nat
  BY PipelineAssumption
<1>2. PICK S : S = Seq(Prices) \ {<<>>}
  OBVIOUS
<1>3. moves \in Seq(S) /\ moves # <<>>
  BY <1>2, PipelineAssumption
<1>4. ASSUME NEW m \in S PROVE m \in Seq(Nat) /\ Len(m) # 0
  <2>1. m \in Seq(Prices) /\ m # <<>>
    BY <1>2
  <2>2. Len(m) \in Nat /\ Len(m) # 0
    BY <2>1
  <2>3. \A i \in 1 .. Len(m) : m[i] \in Prices
    BY <2>1
  <2>4. m \in [1 .. Len(m) -> Nat]
    <3>1. \A i \in 1 .. Len(m) : m[i] \in Nat
      BY <1>1, <2>3, Zenon
    <3>2. m = [i \in 1 .. Len(m) |-> m[i]]
      BY <2>1
    <3> QED BY <3>1, <3>2
  <2> QED BY <2>2, <2>4
<1>5. Len(moves) \in Nat /\ Len(moves) # 0 /\ \A i \in 1 .. Len(moves) : moves[i] \in S
  BY <1>3
<1>6. moves \in [1 .. Len(moves) -> Seq(Nat)]
  BY <1>3, <1>4, <1>5
<1>7. moves \in Seq(Seq(Nat))
  BY <1>5, <1>6
<1> QED
  BY <1>4, <1>5, <1>7 DEF Moves

(***************************************************************************)
(* Whatever the exchange answers, whatever price the feed has cached and   *)
(* however the generator walks from it, a browser's chart is well formed,  *)
(* aligned and without a gap (GetCandles, FetchHistory).                   *)
(***************************************************************************)
THEOREM PipelineCharts == Spec => []ChartContinues
<1> DEFINE ChartInv == Types /\ ChartContinues
<1>1. Init => ChartInv
  BY TypesInit DEF Init, ChartContinues
<1>2. ChartInv /\ [Next]_vars => ChartInv'
  <2> SUFFICES ASSUME ChartInv, [Next]_vars PROVE ChartInv'
    OBVIOUS
  <2>0. Types' /\ latest \in {None} \cup Tick /\ Times \subseteq Nat
    BY TypesNext, PipelineAssumption DEF Types
  <2>1. CASE ExchangeChart
    <3>1. PICK klines \in Klines : /\ HistoryOf(klines) # <<>>
                                   /\ chart' = [mocked |-> FALSE, data |-> HistoryOf(klines)]
      BY <2>1 DEF ExchangeChart
    <3>2. PICK bars \in Seq(GoodBar) :
            /\ bars = HistoryOf(klines) /\ bars # <<>>
            /\ \A i \in 1 .. Len(bars) : bars[i].time % Interval = 0
      BY <3>1, ExchangeBars
    <3>3. \A i \in 1 .. Len(bars) : bars[i] \in GoodBar
      OBVIOUS
    <3>4. chart'.mocked = FALSE /\ chart'.data = bars
      BY <3>1, <3>2
    <3>5. ChartContinues'
      BY <3>2, <3>3, <3>4 DEF ChartContinues
    <3> QED BY <2>0, <3>5
  <2>2. CASE MockChart
    <3>1. PICK cached \in {latest, None}, moves \in Walks, ts \in Times :
            chart' = [mocked |-> TRUE, data |-> MockHistory(ChartBase(cached), moves, ts),
                      cached |-> cached, limit |-> Len(moves), ts |-> ts]
      BY <2>2 DEF MockChart
    <3>2. ts \in Nat /\ ts \in Int /\ moves \in Moves
      BY <2>0, WalksMove
    <3>3. PICK base \in Nat : base = ChartBase(cached)
      <4>1. CASE cached = None
        BY <4>1, CandleAssumption DEF ChartBase
      <4>2. CASE cached # None
        <5>1. cached \in Tick
          BY <2>0, <4>2
        <5> QED BY <4>2, <5>1, NewTyped DEF ChartBase
      <4> QED BY <4>1, <4>2
    <3>4. PICK bars : bars = MockHistory(base, moves, ts)
      OBVIOUS
    <3>5. Generated(bars, base, ts) /\ Len(bars) = Len(moves)
      <4>1. Len(moves) \in Nat
        BY <3>2 DEF Moves
      <4>2. bars \in [1 .. Len(moves) -> {bars[i] : i \in 1 .. Len(moves)}]
        BY <3>4 DEF MockHistory
      <4>3. Len(bars) = Len(moves)
        BY <4>1, <4>2
      <4> QED BY <3>2, <3>4, <4>3, GeneratedChart
    <3>6. /\ chart'.mocked = TRUE /\ chart'.data = bars /\ chart'.cached = cached
          /\ chart'.limit = Len(moves) /\ chart'.ts = ts
      BY <3>1, <3>3, <3>4
    <3>7. /\ bars # <<>>
          /\ \A i \in 1 .. Len(bars) : bars[i] \in GoodBar /\ bars[i].time % Interval = 0
      BY <3>5, NoRemainder DEF Generated
    <3>8. bars[Len(bars)].time = ts - (ts % Interval)
      BY <3>2, <3>5, Aligned DEF Generated
    <3>9. cached # None => bars[1].open = cached.price
      BY <3>3, <3>5 DEF Generated, ChartBase
    <3>10. \A i \in 1 .. Len(bars) - 1 :
                        /\ bars[i + 1].time = bars[i].time + Interval
                        /\ bars[i + 1].open = bars[i].close
      BY <3>5 DEF Generated, NoGap
    <3>11. ChartContinues'
      BY <3>5, <3>6, <3>7, <3>8, <3>9, <3>10 DEF ChartContinues
    <3> QED BY <2>0, <3>11
  <2>3. CASE chart' = chart
    BY <2>0, <2>3 DEF ChartContinues
  <2>4. ASSUME NEW l \in Loops, ProcessTick(l) PROVE chart' = chart
    BY <2>4 DEF ProcessTick, Take, GetHistory, SetHistory, AddTick, CheckCandle, StartCandle,
                CheckHigh, SetHigh, CheckLow, SetLow, SetClose
  <2>5. CASE UNCHANGED vars
    BY <2>3, <2>5 DEF vars
  <2> QED BY <2>1, <2>2, <2>3, <2>4, <2>5 DEF Next
<1> QED
  BY <1>1, <1>2, PTL DEF Spec

=============================================================================
