--------------------------- MODULE DeltaFactorProofs ---------------------------
(***************************************************************************)
(* The ring of time buckets is exact for every window, bucket size and     *)
(* ring, every sequence of trades and silences.                            *)
(*                                                                         *)
(* The argument: the live buckets are one bucket size apart (Tiled), each  *)
(* holds the net volume of the trades that belong to it (Exact), and a     *)
(* trade whose bucket is no longer live is a whole ring behind the head    *)
(* (Placed), hence older than the window.  The sum over the buckets is     *)
(* then the sum over the trades, grouped by bucket.                        *)
(***************************************************************************)
EXTENDS DeltaFactor, ArithProofs

(* Numbers of buckets and the time they span *)

Span(i) == i * BucketSize

LEMMA SpanFacts ==
    /\ Span(0) = 0 /\ Span(1) = BucketSize
    /\ \A i \in Nat : Span(i) \in Nat
    /\ \A i, j \in Nat : Span(i + j) = Span(i) + Span(j)
    /\ \A i, j \in Nat : i < j => Span(i) + BucketSize <= Span(j)
  BY DeltaAssumption, Spans DEF Span

LEMMA SpanNat == ASSUME NEW i \in Nat PROVE Span(i) \in Nat
  BY SpanFacts

LEMMA SpanOrder ==
    ASSUME NEW i \in Nat, NEW j \in Nat
    PROVE  /\ i <= j => Span(i) <= Span(j)
           /\ i < j => Span(i) + BucketSize <= Span(j)
           /\ Span(i) = Span(j) => i = j
<1>1. i < j => Span(i) + BucketSize <= Span(j)  BY SpanFacts
<1>2. j < i => Span(j) + BucketSize <= Span(i)  BY SpanFacts
<1>3. Span(i) \in Nat /\ Span(j) \in Nat  BY SpanNat
<1>4. i = j => Span(i) = Span(j)  OBVIOUS
<1> QED  BY <1>1, <1>2, <1>3, <1>4, DeltaAssumption

\* A window is m buckets; the ring opens m + 1 at most and holds them.
LEMMA WindowBuckets ==
    \E m \in Nat : Window = Span(m) /\ num_buckets = m + 1 /\ m + 1 <= Ring
<1> DEFINE m == Window \div BucketSize
           a == Window + BucketSize - 1
           q == a \div BucketSize
           p == BucketSize * m
           u == BucketSize * q
<1>1. m \in Nat /\ Window = p
  BY DeltaAssumption, DivMod
<1>2. a \in Nat /\ q \in Nat /\ a >= u /\ a <= u + BucketSize - 1
  <2>1. a \in Nat  BY DeltaAssumption
  <2>2. q \in Nat /\ a % BucketSize \in 0 .. BucketSize - 1 /\ a = u + (a % BucketSize)
    <3> HIDE DEF a
    <3> QED  BY <2>1, DivMod, DeltaAssumption
  <2>3. u \in Nat  BY <2>2, DeltaAssumption
  <2> HIDE DEF a, u
  <2> QED  BY <2>1, <2>2, <2>3, DeltaAssumption
<1> HIDE DEF m, q
<1>3. p \in Nat /\ u \in Nat  BY <1>1, <1>2, DeltaAssumption
<1>4. (m < q => p + BucketSize <= u) /\ (q < m => u + BucketSize <= p)
  BY <1>1, <1>2, Turns, DeltaAssumption
<1>5. Window = Span(m)  BY <1>1, DeltaAssumption DEF Span
<1> HIDE DEF p, u
<1>6. q = m  BY <1>1, <1>2, <1>3, <1>4, DeltaAssumption
<1>7. m + 1 <= Ring
  <2>1. Ring - 1 \in Nat /\ Window <= Span(Ring - 1)  BY DeltaAssumption DEF Span
  <2>2. Ring - 1 < m => Span(Ring - 1) + BucketSize <= Span(m)  BY <1>1, <2>1, SpanFacts
  <2>3. Span(Ring - 1) \in Nat  BY <2>1, SpanFacts
  <2> QED  BY <1>1, <1>5, <2>1, <2>2, <2>3, DeltaAssumption
<1>8. num_buckets = m + 1
  <2>1. num_buckets = Min({m + 1, Ring})  BY <1>6 DEF num_buckets, q
  <2> QED  BY <1>1, <1>7, <2>1, MinOfTwo, DeltaAssumption
<1> QED  BY <1>1, <1>5, <1>7, <1>8

\* What advance_time opens: whole buckets up to t, short of t only when capped.
LEMMA ToAdd ==
    ASSUME NEW h \in Nat, buckets[head].ts = h, NEW t \in Nat, h <= t
    PROVE  /\ to_add(t) \in 0 .. num_buckets
           /\ h + Span(to_add(t)) <= t
           /\ t < h + Span(to_add(t)) + BucketSize \/ to_add(t) = num_buckets
<1> DEFINE d == t - h
           q == d \div BucketSize
           u == BucketSize * q
           k == to_add(t)
<1>1. num_buckets \in Nat  BY WindowBuckets
<1>2. d \in Nat  OBVIOUS
<1>3. q \in Nat /\ u \in Nat /\ u <= d /\ d < u + BucketSize
  <2>1. q \in Nat /\ d % BucketSize \in 0 .. BucketSize - 1 /\ d = u + (d % BucketSize)
    <3> HIDE DEF d
    <3> QED  BY <1>2, DivMod, DeltaAssumption
  <2>2. u \in Nat  BY <2>1, DeltaAssumption
  <2> HIDE DEF d, u
  <2> QED  BY <1>2, <2>1, <2>2, DeltaAssumption
<1>4. u = Span(q)  BY <1>3, DeltaAssumption DEF Span
<1>5. k = IF t < h + BucketSize THEN 0 ELSE Min({q, num_buckets})  BY DEF to_add
<1> HIDE DEF q, u, k
<1>6. CASE t < h + BucketSize
  <2>1. k = 0  BY <1>5, <1>6
  <2>2. Span(k) = 0  BY <2>1, SpanFacts
  <2> QED  BY <1>1, <1>6, <2>1, <2>2 DEF k
<1>7. CASE ~(t < h + BucketSize)
  <2>1. k = IF q <= num_buckets THEN q ELSE num_buckets  BY <1>1, <1>3, <1>5, <1>7, MinOfTwo
  <2>2. num_buckets < q => Span(num_buckets) + BucketSize <= Span(q)
    BY <1>1, <1>3, SpanFacts
  <2>3. Span(num_buckets) \in Nat  BY <1>1, SpanFacts
  <2>4. CASE q <= num_buckets
    <3>1. k = q /\ Span(k) = u  BY <1>4, <2>1, <2>4
    <3> QED  BY <1>1, <1>2, <1>3, <2>4, <3>1, DeltaAssumption DEF k
  <2>5. CASE ~(q <= num_buckets)
    <3>1. k = num_buckets  BY <2>1, <2>5
    <3> QED  BY <1>1, <1>2, <1>3, <1>4, <2>2, <2>3, <2>5, <3>1, DeltaAssumption DEF k
  <2> QED  BY <2>4, <2>5
<1> QED  BY <1>6, <1>7

-----------------------------------------------------------------------------
(* Places of the ring *)

LEMMA RingSize == Ring \in Nat \ {0} /\ 0 \in Slot
  BY DeltaAssumption DEF Slot

LEMMA AheadPlace ==
    ASSUME NEW s \in Slot, head \in Slot
    PROVE  Ahead(s) = IF s <= head THEN s + Ring - head ELSE s - head
  BY RingSize, RingAheadPlace DEF Ahead, RingAhead, Slot

\* Opening k buckets moves the others k places back and touches no other slot.
LEMMA Places ==
    ASSUME head \in Slot, NEW k \in 0 .. Ring, NEW i \in Slot
    PROVE  LET s == Behind((head + k) % Ring, i) IN
           /\ (head + k) % Ring \in Slot
           /\ s \in Slot
           /\ i < k => Ahead(s) = k - i
           /\ i >= k => i - k \in Slot /\ Ahead(s) > k /\ s = Behind(head, i - k)
<1> DEFINE h == RingStep(Ring, head, k)
           s == RingBack(Ring, h, i)
<1>0. (head + k) % Ring = h  BY DEF RingStep
<1>1. \A j : Behind(h, j) = RingBack(Ring, h, j) /\ Behind(head, j) = RingBack(Ring, head, j)
  BY DEF Behind, RingBack
<1>2. Ahead(s) = RingAhead(Ring, head, s)  BY DEF Ahead, RingAhead
<1>3. /\ h \in 0 .. Ring - 1 /\ s \in 0 .. Ring - 1
      /\ i < k => RingAhead(Ring, head, s) = k - i
      /\ i >= k => /\ i - k \in 0 .. Ring - 1 /\ RingAhead(Ring, head, s) > k
                   /\ s = RingBack(Ring, head, i - k)
  <2>1. Ring \in Nat \ {0} /\ head \in 0 .. Ring - 1 /\ i \in 0 .. Ring - 1
    BY RingSize DEF Slot
  <2> QED  BY <2>1, RingMove
<1>4. Behind(h, i) = s  BY <1>1
<1> HIDE DEF s, h
<1> QED  BY <1>0, <1>1, <1>2, <1>3, <1>4 DEF Slot

\* The place behind the head by nothing is the head, and no other is.
LEMMA HeadPlace ==
    ASSUME NEW h \in Slot
    PROVE  /\ Behind(h, 0) = h
           /\ \A i \in Slot : Behind(h, i) \in Slot /\ (i # 0 => Behind(h, i) # h)
<1>1. \A g, j : Behind(g, j) = RingBack(Ring, g, j)  BY DEF Behind, RingBack
<1> QED  BY <1>1, RingSize, RingHead DEF Slot

-----------------------------------------------------------------------------
(* The ring and the trades it stands for *)

Bucket == [ts : Nat, buy : Nat, sell : Nat]
Trade  == [t : Nat, b : Nat, vol : Int]

RingType(r) == r \in [buckets : [Slot -> Bucket], head : Slot, count : 0 .. Ring]

Live(r)    == 0 .. r.count - 1
Back(r, i) == r.buckets[Behind(r.head, i)]
Top(r)     == r.buckets[r.head].ts

Vol(tr)          == [k \in DOMAIN tr |-> tr[k].vol]
Of(tr, i, h)     == {k \in DOMAIN tr : tr[k].b + Span(i) = h}
Traded(tr, i, h) == SumFunctionOnSet(Vol(tr), Of(tr, i, h))

\* The live buckets follow one another without a gap.
Tiled(r) == \A i \in Live(r) : Back(r, i).ts + Span(i) = Top(r)

\* A live bucket holds the net volume of its trades.
Exact(r, tr) == \A i \in Live(r) : NetVolume(Back(r, i)) = Traded(tr, i, Top(r))

\* A trade is in a live bucket, unless the whole ring has been opened since.
Placed(r, tr) ==
    \A k \in DOMAIN tr : \E j \in Nat :
        tr[k].b + Span(j) = Top(r) /\ (j < r.count \/ r.count = Ring)

RingInv(r, tr) ==
    RingType(r) /\ tr \in Seq(Trade) /\ Tiled(r) /\ Exact(r, tr) /\ Placed(r, tr)

ring == [buckets |-> buckets, head |-> head, count |-> count]

\* The inductive invariant.
WindowInv ==
    /\ RingInv(ring, trades)
    /\ now \in Nat /\ midprice \in Nat
    /\ count > 0 => HeadTs <= now
    /\ \A k \in DOMAIN trades : trades[k].b <= trades[k].t /\ trades[k].t <= now
    /\ Lagging => \A k \in InWindow : trades[k].t = now
    /\ NetDeltaExact

LEMMA TradeFacts ==
    ASSUME NEW tr \in Seq(Trade)
    PROVE  /\ Len(tr) \in Nat /\ DOMAIN tr = 1 .. Len(tr)
           /\ IsFiniteSet(DOMAIN tr)
           /\ \A k \in DOMAIN tr :
                 tr[k].t \in Nat /\ tr[k].b \in Nat /\ tr[k].vol \in Int /\ Vol(tr)[k] \in Int
<1>1. /\ Len(tr) \in Nat /\ DOMAIN tr = 1 .. Len(tr)
      /\ \A k \in 1 .. Len(tr) : tr[k] \in Trade
  BY SeqElement
<1>2. IsFiniteSet(DOMAIN tr)  BY <1>1, FS_Interval
<1> QED  BY <1>1, <1>2 DEF Trade, Vol

LEMMA AppendTrade ==
    ASSUME NEW tr \in Seq(Trade), NEW e \in Trade, NEW k \in DOMAIN Append(tr, e)
    PROVE  \/ k \in DOMAIN tr /\ Append(tr, e)[k] = tr[k]
           \/ Append(tr, e)[k] = e
<1>1. Len(tr) \in Nat /\ DOMAIN tr = 1 .. Len(tr)  BY TradeFacts
<1>2. DOMAIN Append(tr, e) = 1 .. (Len(tr) + 1)  BY <1>1
<1>3. CASE k \in 1 .. Len(tr)  BY <1>1, <1>3
<1>4. CASE k = Len(tr) + 1  BY <1>1, <1>4
<1> QED  BY <1>1, <1>2, <1>3, <1>4

LEMMA TradedInt ==
    ASSUME NEW tr \in Seq(Trade), NEW i, NEW h
    PROVE  IsFiniteSet(Of(tr, i, h)) /\ Traded(tr, i, h) \in Int
<1>1. Of(tr, i, h) \subseteq DOMAIN tr  BY DEF Of
<1>2. IsFiniteSet(Of(tr, i, h))  BY <1>1, TradeFacts, FS_Subset
<1>3. \A k \in Of(tr, i, h) : Vol(tr)[k] \in Int  BY <1>1, TradeFacts
<1> QED  BY <1>2, <1>3, SumInt DEF Traded

\* One more trade adds its volume to its own bucket and to no other.
LEMMA TradedAppend ==
    ASSUME NEW tr \in Seq(Trade), NEW e \in Trade, NEW i \in Nat, NEW h \in Nat
    PROVE  Traded(Append(tr, e), i, h)
             = Traded(tr, i, h) + (IF e.b + Span(i) = h THEN e.vol ELSE 0)
<1> DEFINE n == Len(tr)
           new == Append(tr, e)
           S == Of(tr, i, h)
           R == Of(new, i, h)
<1>1. n \in Nat /\ DOMAIN tr = 1 .. n  BY TradeFacts
<1>2. /\ new \in Seq(Trade) /\ DOMAIN new = 1 .. (n + 1)
      /\ new[n + 1] = e /\ \A k \in 1 .. n : new[k] = tr[k]
  BY <1>1
<1>3. n + 1 \notin S  BY <1>1 DEF Of
<1>4. R = IF e.b + Span(i) = h THEN S \cup {n + 1} ELSE S
  BY <1>1, <1>2 DEF Of
<1>5. IsFiniteSet(S) /\ IsFiniteSet(R) /\ Traded(tr, i, h) \in Int
  BY <1>2, TradedInt
<1>6. \A k \in S : Vol(new)[k] = Vol(tr)[k]  BY <1>1, <1>2 DEF Vol, Of
<1>7. \A k \in R : Vol(new)[k] \in Int
  BY <1>2, TradeFacts DEF Of
<1>8. Vol(new)[n + 1] = e.vol /\ e.vol \in Int  BY <1>1, <1>2 DEF Vol, Trade
<1> HIDE DEF new, S, R
<1>9. SumFunctionOnSet(Vol(new), S) = SumFunctionOnSet(Vol(tr), S)
  BY <1>5, <1>6, SumEqual
<1>10. CASE e.b + Span(i) = h
  <2>1. n + 1 \in R /\ R \ {n + 1} = S  BY <1>3, <1>4, <1>10
  <2>2. SumFunctionOnSet(Vol(new), R)
          = Vol(new)[n + 1] + SumFunctionOnSet(Vol(new), R \ {n + 1})
    BY <1>5, <1>7, <2>1, SumRemove
  <2>3. SumFunctionOnSet(Vol(new), R) = e.vol + Traded(tr, i, h)
    BY <1>8, <1>9, <2>1, <2>2 DEF Traded, S
  <2> QED  BY <1>5, <1>8, <1>10, <2>3 DEF Traded, R, new
<1>11. CASE e.b + Span(i) # h
  <2>1. SumFunctionOnSet(Vol(new), R) = Traded(tr, i, h)
    BY <1>4, <1>9, <1>11 DEF Traded, S
  <2> QED  BY <1>5, <1>11, <2>1 DEF Traded, R, new
<1> QED  BY <1>10, <1>11

LEMMA RingFacts ==
    ASSUME NEW r, RingType(r)
    PROVE  /\ r.head \in Slot /\ r.count \in 0 .. Ring /\ Top(r) \in Nat
           /\ Live(r) \subseteq Slot /\ Live(r) \subseteq Nat
           /\ \A i \in Slot : Back(r, i) \in Bucket
           /\ Back(r, 0) = r.buckets[r.head]
<1>1. r.buckets \in [Slot -> Bucket] /\ r.head \in Slot /\ r.count \in 0 .. Ring
  BY DEF RingType
<1>2. Top(r) \in Nat  BY <1>1 DEF Top, Bucket
<1>3. Live(r) \subseteq Slot /\ Live(r) \subseteq Nat  BY <1>1, RingSize DEF Live, Slot
<1>4. \A i \in Slot : Back(r, i) \in Bucket  BY <1>1, HeadPlace DEF Back
<1>5. Back(r, 0) = r.buckets[r.head]  BY <1>1, HeadPlace DEF Back
<1> QED  BY <1>1, <1>2, <1>3, <1>4, <1>5

\* recompute stops only when no older bucket is in the window, and then has seen all
\* of its trades.
Inside(r, tr) == {k \in DOMAIN tr : tr[k].b >= cutoff(Top(r))}

LEMMA WindowSumExact ==
    ASSUME NEW r, NEW tr, RingInv(r, tr)
    PROVE  WindowSum(r) = SumFunctionOnSet(Vol(tr), Inside(r, tr))
<1> DEFINE h == Top(r)
           c == cutoff(h)
           v == [i \in 0 .. r.count - 1 |-> NetVolume(r.buckets[Behind(r.head, i)])]
           class == [k \in DOMAIN tr |-> CHOOSE j \in Nat : tr[k].b + Span(j) = h]
           C == Counted(r)
           D == DOMAIN tr
<1>0. RingType(r) /\ tr \in Seq(Trade) /\ Tiled(r) /\ Exact(r, tr) /\ Placed(r, tr)
  BY DEF RingInv
<1>1. /\ h \in Nat /\ r.count \in 0 .. Ring /\ Live(r) \subseteq Nat
      /\ \A i \in Live(r) : Back(r, i) \in Bucket
  BY <1>0, RingFacts
<1>2. c \in Nat /\ c <= h /\ h <= c + Window  BY <1>1, DeltaAssumption DEF cutoff
<1>3. ASSUME NEW i \in Live(r)
      PROVE  i \in C <=> Back(r, i).ts >= c
  <2>1. i \in Nat /\ i < r.count  BY <1>1 DEF Live
  <2>2. \A j \in 0 .. i : j \in Live(r)  BY <1>1, <2>1 DEF Live
  <2>3. \A j \in 0 .. i : Span(j) <= Span(i) /\ Span(j) \in Nat /\ Span(i) \in Nat
    BY <2>1, SpanNat, SpanOrder
  <2>4. \A j \in 0 .. i : Back(r, j).ts + Span(j) = h /\ Back(r, j).ts \in Nat
    BY <1>0, <1>1, <2>2 DEF Tiled, Bucket
  <2>5. i \in 0 .. i  BY <2>1
  <2>6. \A j \in 0 .. i : Back(r, j).ts >= Back(r, i).ts
    BY <1>1, <2>3, <2>4, <2>5
  <2>7. i \in C <=> \A j \in 0 .. i : Back(r, j).ts >= c
    BY <2>1, <2>2 DEF Counted, Back, Top, Live
  <2> HIDE DEF C, c
  <2> QED  BY <1>2, <2>4, <2>5, <2>6, <2>7
<1>4. C \subseteq Live(r)  BY DEF Counted, Live
<1>5. IsFiniteSet(C) /\ IsFiniteSet(D)
  <2>1. IsFiniteSet(Live(r))  BY <1>1, FS_Interval DEF Live
  <2> QED  BY <1>0, <1>4, <2>1, FS_Subset, TradeFacts
<1>6. ASSUME NEW k \in D
      PROVE  /\ class[k] \in Nat /\ tr[k].b + Span(class[k]) = h
             /\ class[k] < r.count \/ r.count = Ring
             /\ \A i \in Nat : class[k] = i <=> tr[k].b + Span(i) = h
  <2>1. PICK j \in Nat : tr[k].b + Span(j) = h /\ (j < r.count \/ r.count = Ring)
    BY <1>0 DEF Placed
  <2>2. class[k] \in Nat /\ tr[k].b + Span(class[k]) = h
    BY <2>1
  <2>3. tr[k].b \in Nat  BY <1>0, TradeFacts
  <2> HIDE DEF class
  <2>4. ASSUME NEW i \in Nat, tr[k].b + Span(i) = h PROVE class[k] = i
    <3>1. Span(i) \in Nat /\ Span(class[k]) \in Nat  BY <2>2, SpanNat
    <3>2. Span(i) = Span(class[k])
      <4> HIDE DEF h
      <4> QED  BY <1>1, <2>2, <2>3, <2>4, <3>1
    <3> QED  BY <2>2, <3>2, SpanOrder
  <2> QED  BY <2>1, <2>2, <2>4
<1>7. ASSUME NEW i \in C PROVE v[i] = SumFunctionOnSet(Vol(tr), OfClass(D, class, i))
  <2>1. i \in Live(r) /\ i \in Nat  BY <1>1, <1>4
  <2>2. v[i] = Traded(tr, i, h)  BY <1>0, <2>1 DEF Exact, Back, Live
  <2> HIDE DEF class, v, h
  <2>3. OfClass(D, class, i) = Of(tr, i, h)  BY <1>6, <2>1 DEF Of, OfClass
  <2> QED  BY <2>2, <2>3 DEF Traded
<1>8. OfClasses(D, class, C) = Inside(r, tr)
  <2> SUFFICES ASSUME NEW k \in D PROVE class[k] \in C <=> tr[k].b >= c
    BY DEF Inside, OfClasses
  <2> HIDE DEF class, C, c
  <2>1. tr[k].b \in Nat  BY <1>0, TradeFacts
  <2>2. ASSUME class[k] \in Live(r) PROVE class[k] \in C <=> tr[k].b >= c
    <3>1. Back(r, class[k]).ts + Span(class[k]) = h /\ Back(r, class[k]).ts \in Nat
      BY <1>0, <1>1, <2>2 DEF Tiled, Bucket
    <3>2. Span(class[k]) \in Nat /\ tr[k].b + Span(class[k]) = h  BY <1>6, SpanNat
    <3>3. Back(r, class[k]).ts = tr[k].b
      <4> HIDE DEF h
      <4> QED  BY <1>1, <2>1, <3>1, <3>2
    <3> QED  BY <1>3, <2>2, <3>3
  <2>3. ASSUME class[k] \notin Live(r) PROVE ~(tr[k].b >= c)
    <3>1. class[k] \in Nat /\ r.count = Ring /\ Ring <= class[k]
      BY <1>1, <1>6, <2>3 DEF Live
    <3>2. Ring - 1 \in Nat /\ Window <= Span(Ring - 1)  BY DeltaAssumption DEF Span
    <3>3. Span(Ring - 1) + BucketSize <= Span(class[k])
      BY <3>1, <3>2, SpanOrder, RingSize
    <3>4. Span(Ring - 1) \in Nat /\ Span(class[k]) \in Nat  BY <3>1, <3>2, SpanFacts
    <3> QED  BY <1>1, <1>2, <1>6, <2>1, <3>2, <3>3, <3>4, DeltaAssumption
  <2> QED  BY <1>4, <2>2, <2>3
<1>9. WindowSum(r) = SumFunctionOnSet(v, C)  BY DEF WindowSum
<1>10. \A k \in D : Vol(tr)[k] \in Int  BY <1>0, TradeFacts
<1> DEFINE w == Vol(tr)
<1> HIDE DEF class, C, D, v, w
<1>11. SumFunctionOnSet(v, C) = SumFunctionOnSet(w, OfClasses(D, class, C))
  <2>1. \A i \in C : v[i] = SumFunctionOnSet(w, OfClass(D, class, i))
    BY <1>7 DEF w
  <2>2. \A k \in D : w[k] \in Int  BY <1>10 DEF w
  <2> QED  BY <1>5, <2>1, <2>2, SumByClass
<1> QED  BY <1>8, <1>9, <1>11 DEF w

-----------------------------------------------------------------------------
(* advance_time and the addition of a trade keep the ring exact *)

LEMMA SpanSum ==
    ASSUME NEW i \in Nat, NEW k \in Nat, i <= k
    PROVE  k - i \in Nat /\ Span(k) = Span(i) + Span(k - i)
<1>1. k - i \in Nat /\ i + (k - i) = k  OBVIOUS
<1>2. Span(i + (k - i)) = Span(i) + Span(k - i)  BY <1>1, SpanFacts
<1> QED  BY <1>1, <1>2

\* No trade: nothing in any bucket.
LEMMA TradedNone ==
    ASSUME NEW tr, NEW i, NEW h, \A k \in DOMAIN tr : tr[k].b + Span(i) # h
    PROVE  Traded(tr, i, h) = 0
<1>1. Of(tr, i, h) = {}  BY DEF Of
<1> QED  BY <1>1, SumEmpty DEF Traded

\* The first event starts the first bucket.
LEMMA AdvanceFirst ==
    ASSUME RingInv(ring, trades), count = 0, NEW t \in Nat
    PROVE  /\ RingInv(advance_time(t), trades)
           /\ advance_time(t).count = 1 /\ Top(advance_time(t)) = t
<1> DEFINE r == [buckets |-> [buckets EXCEPT ![0] = Fresh(t)], head |-> 0, count |-> 1]
<1>1. advance_time(t) = r  BY DEF advance_time
<1>2. buckets \in [Slot -> Bucket] /\ trades \in Seq(Trade) /\ 0 \in Slot /\ Ring \in Nat \ {0}
  BY RingSize DEF RingInv, RingType, ring
<1>3. DOMAIN trades = {}
  <2>1. ring.count = 0  BY DEF ring
  <2> QED  BY <1>2, <2>1 DEF RingInv, Placed
<1>4. Fresh(t) \in Bucket  BY DEF Fresh, Bucket
<1>5. RingType(r)  BY <1>2, <1>4 DEF RingType
<1>6. r.count = 1 /\ Top(r) = t /\ r.buckets[r.head] = Fresh(t)
  BY <1>2 DEF Top, Fresh
<1> HIDE DEF r
<1>7. Back(r, 0) = Fresh(t)  BY <1>5, <1>6, RingFacts
<1>8. Live(r) = {0}  BY <1>6 DEF Live
<1>9. Tiled(r)  BY <1>6, <1>7, <1>8, SpanFacts DEF Tiled, Fresh
<1>10. Exact(r, trades)
  <2>1. Traded(trades, 0, Top(r)) = 0  BY <1>3, TradedNone
  <2> QED  BY <1>7, <1>8, <2>1 DEF Exact, Fresh, NetVolume
<1>11. Placed(r, trades)  BY <1>3 DEF Placed
<1> QED  BY <1>1, <1>2, <1>5, <1>6, <1>9, <1>10, <1>11 DEF RingInv

\* A later one opens k buckets, and drops those the ring has no room for.
LEMMA AdvanceLater ==
    ASSUME RingInv(ring, trades), count > 0, NEW t \in Nat, HeadTs <= t
    PROVE  LET r == advance_time(t) IN
           /\ RingInv(r, trades)
           /\ r.count > 0 /\ Top(r) = HeadTs + Span(to_add(t))
<1> DEFINE k == to_add(t)
           h == HeadTs
           r == advance_time(t)
<1>1. /\ RingType(ring) /\ trades \in Seq(Trade)
      /\ Tiled(ring) /\ Exact(ring, trades) /\ Placed(ring, trades)
  BY DEF RingInv
<1>2. /\ buckets \in [Slot -> Bucket] /\ head \in Slot /\ count \in 0 .. Ring
      /\ h \in Nat /\ Top(ring) = h /\ Ring \in Nat \ {0}
  BY <1>1, RingSize DEF RingType, ring, HeadTs, Bucket, Top
<1>3. k \in 0 .. Ring
  <2>1. k \in 0 .. num_buckets  BY <1>2, ToAdd DEF HeadTs
  <2>2. num_buckets \in Nat /\ num_buckets <= Ring  BY WindowBuckets
  <2> HIDE DEF k
  <2> QED  BY <1>2, <2>1, <2>2
<1>4. r = [buckets |-> Opened(k), head |-> (head + k) % Ring, count |-> Min({count + k, Ring})]
  BY <1>2 DEF advance_time
<1> HIDE DEF k, r
<1>5. k \in Nat /\ Span(k) \in Nat  BY <1>2, <1>3, SpanNat
<1>6. r.count = IF count + k <= Ring THEN count + k ELSE Ring
  BY <1>2, <1>4, <1>5, MinOfTwo
<1>7. r.head \in Slot
  <2>1. r.head = (head + k) % Ring  BY <1>4
  <2> QED  BY <1>2, <1>3, <2>1, Places, RingSize
<1>8. Opened(k) \in [Slot -> Bucket]
  <2> SUFFICES ASSUME NEW s \in Slot
               PROVE  (IF Ahead(s) <= k THEN Fresh(buckets[head].ts + Ahead(s) * BucketSize)
                                        ELSE buckets[s]) \in Bucket
    BY DEF Opened
  <2>1. Ahead(s) \in Nat  BY <1>2, AheadPlace DEF Slot
  <2>2. Span(Ahead(s)) \in Nat  BY <2>1, SpanNat
  <2>3. h + Span(Ahead(s)) \in Nat  BY <1>2, <2>2
  <2>4. Fresh(h + Span(Ahead(s))) \in Bucket  BY <2>3 DEF Fresh, Bucket
  <2> QED  BY <1>2, <2>4 DEF HeadTs, Span
<1>9. RingType(r)  BY <1>2, <1>4, <1>5, <1>6, <1>7, <1>8 DEF RingType
<1>10. ASSUME NEW i \in Slot
       PROVE  /\ i < k => Back(r, i) = Fresh(h + Span(k - i))
              /\ i >= k => i - k \in Slot /\ Back(r, i) = Back(ring, i - k)
  <2> DEFINE s == Behind((head + k) % Ring, i)
  <2>1. /\ s \in Slot /\ (i < k => Ahead(s) = k - i)
        /\ i >= k => i - k \in Slot /\ Ahead(s) > k /\ s = Behind(head, i - k)
    BY <1>2, <1>3, Places
  <2>2. Back(r, i) = Opened(k)[s]  BY <1>4 DEF Back
  <2> HIDE DEF s
  <2>3. Opened(k)[s] = IF Ahead(s) <= k THEN Fresh(h + Span(Ahead(s))) ELSE buckets[s]
    BY <2>1 DEF Opened, HeadTs, Span
  <2>4. ASSUME i < k PROVE Back(r, i) = Fresh(h + Span(k - i))
    <3>1. Ahead(s) = k - i /\ k - i <= k  BY <1>2, <1>5, <2>1, <2>4 DEF Slot
    <3> QED  BY <2>2, <2>3, <3>1
  <2>5. ASSUME i >= k PROVE i - k \in Slot /\ Back(r, i) = Back(ring, i - k)
    <3>1. i - k \in Slot /\ Ahead(s) > k /\ s = Behind(head, i - k)  BY <2>1, <2>5
    <3>2. Ahead(s) \in Int  BY <1>2, <2>1, AheadPlace DEF Slot
    <3>3. Opened(k)[s] = buckets[s]  BY <1>5, <2>3, <3>1, <3>2
    <3> QED  BY <2>2, <3>1, <3>3 DEF Back, ring
  <2> QED  BY <2>4, <2>5
<1>11. Top(r) = h + Span(k)
  <2>1. Top(r) = Back(r, 0).ts  BY <1>9, RingFacts DEF Top
  <2>2. CASE k = 0
    <3>1. Back(r, 0) = Back(ring, 0)  BY <1>2, <1>10, <2>2, RingSize
    <3>2. Back(ring, 0).ts = h  BY <1>1, <1>2, RingFacts DEF Top
    <3>3. Span(k) = 0  BY <2>2, SpanFacts
    <3> HIDE DEF h
    <3> QED  BY <1>2, <2>1, <3>1, <3>2, <3>3
  <2>3. CASE k # 0
    <3>1. Back(r, 0) = Fresh(h + Span(k - 0))  BY <1>5, <1>10, <2>3, RingSize
    <3> QED  BY <1>5, <2>1, <3>1 DEF Fresh
  <2> QED  BY <2>2, <2>3
<1>12. ASSUME NEW i \in Live(r)
       PROVE  /\ i \in Slot /\ i \in Nat
              /\ i >= k => i - k \in Live(ring)
              /\ i <= k => k - i \in Nat /\ Span(k) = Span(i) + Span(k - i)
              /\ i >= k => i - k \in Nat /\ Span(i) = Span(k) + Span(i - k)
              /\ Span(i) \in Nat
  <2>1. i \in Slot /\ i \in Nat  BY <1>9, RingFacts
  <2>2. i >= k => i - k \in Live(ring)
    BY <1>2, <1>5, <1>6, <2>1 DEF Live, ring
  <2>3. i <= k => k - i \in Nat /\ Span(k) = Span(i) + Span(k - i)
    BY <1>5, <2>1, SpanSum
  <2>4. i >= k => i - k \in Nat /\ Span(i) = Span(k) + Span(i - k)
    BY <1>5, <2>1, SpanSum
  <2> QED  BY <2>1, <2>2, <2>3, <2>4, SpanNat
<1>13. Tiled(r)
  <2> SUFFICES ASSUME NEW i \in Live(r) PROVE Back(r, i).ts + Span(i) = Top(r)
    BY DEF Tiled
  <2>1. CASE i < k
    <3>1. Back(r, i).ts = h + Span(k - i)  BY <1>10, <1>12, <2>1 DEF Fresh
    <3>2. Span(k) = Span(i) + Span(k - i) /\ Span(i) \in Nat /\ Span(k - i) \in Nat
      BY <1>5, <1>12, <2>1, SpanNat
    <3> HIDE DEF h
    <3> QED  BY <1>2, <1>11, <3>1, <3>2
  <2>2. CASE i >= k
    <3>1. Back(r, i) = Back(ring, i - k)  BY <1>10, <1>12, <2>2
    <3>2. Back(ring, i - k).ts + Span(i - k) = h /\ Back(ring, i - k).ts \in Nat
      BY <1>1, <1>2, <1>12, <2>2, RingFacts DEF Tiled, Bucket
    <3>3. Span(i) = Span(k) + Span(i - k) /\ Span(i - k) \in Nat  BY <1>12, <2>2, SpanNat
    <3> HIDE DEF h
    <3> QED  BY <1>2, <1>5, <1>11, <3>1, <3>2, <3>3
  <2> QED  BY <1>5, <1>12, <2>1, <2>2
<1>14. \A n \in DOMAIN trades : \E j \in Nat :
          trades[n].b \in Nat /\ trades[n].b + Span(j) = h /\ (j < count \/ count = Ring)
  BY <1>1, <1>2, TradeFacts DEF Placed, ring
<1>15. Exact(r, trades)
  <2> SUFFICES ASSUME NEW i \in Live(r)
               PROVE  NetVolume(Back(r, i)) = Traded(trades, i, Top(r))
    BY DEF Exact
  <2>1. CASE i < k
    <3>1. NetVolume(Back(r, i)) = 0  BY <1>10, <1>12, <2>1 DEF Fresh, NetVolume
    <3>2. ASSUME NEW n \in DOMAIN trades PROVE trades[n].b + Span(i) # Top(r)
      <4>1. PICK j \in Nat : trades[n].b \in Nat /\ trades[n].b + Span(j) = h
        BY <1>14
      <4>2. Span(j) \in Nat /\ Span(i) + BucketSize <= Span(k) /\ Span(i) \in Nat
        BY <1>5, <1>12, <2>1, SpanNat, SpanOrder
      <4> HIDE DEF h
      <4> QED  BY <1>2, <1>5, <1>11, <4>1, <4>2, DeltaAssumption
    <3> QED  BY <3>1, <3>2, TradedNone
  <2>2. CASE i >= k
    <3>1. Back(r, i) = Back(ring, i - k)  BY <1>10, <1>12, <2>2
    <3>2. NetVolume(Back(ring, i - k)) = Traded(trades, i - k, h)
      BY <1>1, <1>2, <1>12, <2>2 DEF Exact
    <3>3. Span(i) = Span(k) + Span(i - k) /\ Span(i - k) \in Nat  BY <1>12, <2>2, SpanNat
    <3>4. Of(trades, i, Top(r)) = Of(trades, i - k, h)
      <4> SUFFICES ASSUME NEW n \in DOMAIN trades
                   PROVE  trades[n].b + Span(i) = Top(r) <=> trades[n].b + Span(i - k) = h
        BY DEF Of
      <4>1. trades[n].b \in Nat  BY <1>1, TradeFacts
      <4> HIDE DEF h
      <4> QED  BY <1>2, <1>5, <1>11, <3>3, <4>1
    <3> QED  BY <3>1, <3>2, <3>4 DEF Traded
  <2> QED  BY <1>5, <1>12, <2>1, <2>2
<1>16. Placed(r, trades)
  <2> SUFFICES ASSUME NEW n \in DOMAIN trades
               PROVE  \E j \in Nat : /\ trades[n].b + Span(j) = Top(r)
                                     /\ j < r.count \/ r.count = Ring
    BY DEF Placed
  <2>1. PICK j \in Nat :
          trades[n].b \in Nat /\ trades[n].b + Span(j) = h /\ (j < count \/ count = Ring)
    BY <1>14
  <2>2. Span(j + k) = Span(j) + Span(k) /\ Span(j) \in Nat  BY <1>5, SpanFacts
  <2>3. trades[n].b + Span(j + k) = Top(r)
    <3> HIDE DEF h
    <3> QED  BY <1>2, <1>5, <1>11, <2>1, <2>2
  <2>4. j + k < r.count \/ r.count = Ring  BY <1>2, <1>5, <1>6, <2>1
  <2>5. j + k \in Nat  BY <1>5
  <2> QED  BY <2>3, <2>4, <2>5
<1>17. r.count > 0  BY <1>2, <1>5, <1>6
<1> QED  BY <1>1, <1>9, <1>11, <1>13, <1>15, <1>16, <1>17 DEF RingInv, r, k

\* The head stays behind the clock only after a silence longer than a window, and
\* then every earlier trade has left the window.
LEMMA Advance ==
    ASSUME RingInv(ring, trades), NEW t \in Nat, count > 0 => HeadTs <= t
    PROVE  LET r == advance_time(t) IN
           /\ RingInv(r, trades)
           /\ r.count > 0 /\ Top(r) \in Nat /\ Top(r) <= t
           /\ t - Top(r) >= BucketSize =>
                /\ count > 0 /\ t - HeadTs >= Window + BucketSize
                /\ \A n \in DOMAIN trades : ~(trades[n].b >= cutoff(Top(r)))
<1> DEFINE r == advance_time(t)
           k == to_add(t)
           h == HeadTs
<1>1. /\ RingType(ring) /\ trades \in Seq(Trade) /\ Placed(ring, trades)
      /\ count \in Nat /\ h \in Nat /\ Top(ring) = h
  BY RingSize DEF RingInv, RingType, ring, HeadTs, Bucket, Top
<1>2. CASE count = 0
  <2>1. RingInv(r, trades) /\ r.count = 1 /\ Top(r) = t  BY <1>2, AdvanceFirst
  <2> HIDE DEF r
  <2> QED  BY <2>1, DeltaAssumption DEF r
<1>3. CASE count > 0
  <2>1. RingInv(r, trades) /\ r.count > 0 /\ Top(r) = h + Span(k)  BY <1>3, AdvanceLater
  <2>2. /\ k \in 0 .. num_buckets /\ h + Span(k) <= t
        /\ t < h + Span(k) + BucketSize \/ k = num_buckets
    BY <1>1, <1>3, ToAdd DEF HeadTs
  <2>3. PICK m \in Nat : Window = Span(m) /\ num_buckets = m + 1 /\ m + 1 <= Ring
    BY WindowBuckets
  <2> HIDE DEF r, k, h
  <2>4. Span(k) \in Nat /\ Span(m) \in Nat  BY <2>2, <2>3, SpanNat
  <2>5. Top(r) \in Nat /\ Top(r) <= t  BY <1>1, <2>1, <2>2, <2>4
  <2>6. ASSUME t - Top(r) >= BucketSize
        PROVE  /\ Top(r) = h + Window + BucketSize
               /\ t - h >= Window + BucketSize
    <3>1. k = m + 1  BY <1>1, <2>1, <2>2, <2>3, <2>4, <2>6, DeltaAssumption
    <3>2. Span(m + 1) = Span(m) + Span(1)  BY <2>3, SpanFacts
    <3>3. Span(k) = Window + BucketSize  BY <2>3, <3>1, <3>2, SpanFacts
    <3> QED  BY <1>1, <2>1, <2>3, <2>4, <2>5, <2>6, <3>3, DeltaAssumption
  <2>7. ASSUME t - Top(r) >= BucketSize, NEW n \in DOMAIN trades
        PROVE  ~(trades[n].b >= cutoff(Top(r)))
    <3>1. PICK j \in Nat : trades[n].b + Span(j) = h  BY <1>1 DEF Placed
    <3>2. trades[n].b \in Nat /\ Span(j) \in Nat  BY <1>1, TradeFacts, SpanNat
    <3>3. cutoff(Top(r)) = h + BucketSize
      BY <1>1, <2>6, <2>7, DeltaAssumption DEF cutoff
    <3> QED  BY <1>1, <3>1, <3>2, <3>3, DeltaAssumption
  <2> QED  BY <1>3, <2>1, <2>5, <2>6, <2>7 DEF r, h
<1> QED  BY <1>1, <1>2, <1>3

\* A trade adds its volume to the bucket it is recorded with.
LEMMA AddTrade ==
    ASSUME NEW r, NEW tr, RingInv(r, tr), r.count > 0,
           NEW price \in Nat, NEW qty \in Nat, NEW mid \in Nat, NEW t \in Nat
    PROVE  LET e == [t |-> t, b |-> Top(r), vol |-> IF IsBuy(price, mid) THEN qty ELSE -qty]
               q == Add(r, price, qty, mid)
           IN  RingInv(q, Append(tr, e)) /\ q.count = r.count /\ Top(q) = Top(r)
<1> DEFINE e == [t |-> t, b |-> Top(r), vol |-> IF IsBuy(price, mid) THEN qty ELSE -qty]
           q == Add(r, price, qty, mid)
           new == Append(tr, e)
<1>1. RingType(r) /\ tr \in Seq(Trade) /\ Tiled(r) /\ Exact(r, tr) /\ Placed(r, tr)
  BY DEF RingInv
<1>2. /\ r.head \in Slot /\ r.count \in 0 .. Ring /\ Top(r) \in Nat
      /\ Live(r) \subseteq Slot /\ Live(r) \subseteq Nat
      /\ r.buckets \in [Slot -> Bucket]
  BY <1>1, RingFacts DEF RingType
<1>3. e \in Trade /\ e.b = Top(r) /\ e.t = t  BY <1>2 DEF Trade
<1>4. /\ RingType(q) /\ q.head = r.head /\ q.count = r.count
      /\ \A s \in Slot : s # r.head => q.buckets[s] = r.buckets[s]
      /\ q.buckets[r.head].ts = r.buckets[r.head].ts
      /\ NetVolume(q.buckets[r.head]) = NetVolume(r.buckets[r.head]) + e.vol
  <2>1. CASE IsBuy(price, mid)
    <3> DEFINE o == r.buckets[r.head]
               p == [o EXCEPT !.buy = o.buy + qty]
    <3>1. q = [r EXCEPT !.buckets = [r.buckets EXCEPT ![r.head] = p]] /\ e.vol = qty
      BY <2>1 DEF Add
    <3>2. o \in Bucket  BY <1>2
    <3> HIDE DEF o
    <3>3. p \in Bucket /\ p.ts = o.ts /\ NetVolume(p) = NetVolume(o) + qty
      BY <3>2 DEF Bucket, NetVolume
    <3> HIDE DEF q, e, p
    <3>4. /\ q.buckets = [r.buckets EXCEPT ![r.head] = p]
          /\ q.head = r.head /\ q.count = r.count
      BY <1>1, <3>1 DEF RingType
    <3>5. q.buckets \in [Slot -> Bucket] /\ q.buckets[r.head] = p
      BY <1>2, <3>3, <3>4
    <3>6. RingType(q)  BY <1>1, <1>2, <3>1, <3>3 DEF RingType
    <3> QED  BY <1>2, <3>1, <3>3, <3>4, <3>5, <3>6 DEF o
  <2>2. CASE ~IsBuy(price, mid)
    <3> DEFINE o == r.buckets[r.head]
               p == [o EXCEPT !.sell = o.sell + qty]
    <3>1. q = [r EXCEPT !.buckets = [r.buckets EXCEPT ![r.head] = p]] /\ e.vol = -qty
      BY <2>2 DEF Add
    <3>2. o \in Bucket  BY <1>2
    <3> HIDE DEF o
    <3>3. p \in Bucket /\ p.ts = o.ts /\ NetVolume(p) = NetVolume(o) + -qty
      BY <3>2 DEF Bucket, NetVolume
    <3> HIDE DEF q, e, p
    <3>4. /\ q.buckets = [r.buckets EXCEPT ![r.head] = p]
          /\ q.head = r.head /\ q.count = r.count
      BY <1>1, <3>1 DEF RingType
    <3>5. q.buckets \in [Slot -> Bucket] /\ q.buckets[r.head] = p
      BY <1>2, <3>3, <3>4
    <3>6. RingType(q)  BY <1>1, <1>2, <3>1, <3>3 DEF RingType
    <3> QED  BY <1>2, <3>1, <3>3, <3>4, <3>5, <3>6 DEF o
  <2> QED  BY <2>1, <2>2
<1> HIDE DEF q, e
<1>5. new \in Seq(Trade)  BY <1>1, <1>3
<1>6. Live(q) = Live(r) /\ Top(q) = Top(r)  BY <1>4 DEF Live, Top
<1>7. ASSUME NEW i \in Live(r)
      PROVE  /\ i \in Nat /\ Back(q, i).ts = Back(r, i).ts
             /\ NetVolume(Back(q, i)) = NetVolume(Back(r, i)) + (IF i = 0 THEN e.vol ELSE 0)
  <2>1. i \in Slot /\ i \in Nat /\ Back(r, i) \in Bucket  BY <1>1, <1>2, RingFacts
  <2>2. CASE i = 0
    <3>1. Back(q, i) = q.buckets[r.head] /\ Back(r, i) = r.buckets[r.head]
      BY <1>1, <1>4, <2>2, RingFacts
    <3> QED  BY <1>4, <2>1, <2>2, <3>1
  <2>3. CASE i # 0
    <3>1. Behind(r.head, i) \in Slot /\ Behind(r.head, i) # r.head
      BY <1>2, <2>1, <2>3, HeadPlace
    <3>2. q.buckets[Behind(r.head, i)] = r.buckets[Behind(r.head, i)]  BY <1>4, <3>1
    <3>3. Back(q, i) = Back(r, i)  BY <1>4, <3>2 DEF Back
    <3>4. NetVolume(Back(r, i)) \in Int  BY <2>1 DEF NetVolume, Bucket
    <3> QED  BY <2>1, <2>3, <3>3, <3>4
  <2> QED  BY <2>2, <2>3
<1>8. Tiled(q)  BY <1>1, <1>6, <1>7 DEF Tiled
<1>9. Exact(q, new)
  <2> SUFFICES ASSUME NEW i \in Live(r)
               PROVE  NetVolume(Back(q, i)) = Traded(new, i, Top(r))
    BY <1>6 DEF Exact
  <2>1. Traded(new, i, Top(r))
          = Traded(tr, i, Top(r)) + (IF e.b + Span(i) = Top(r) THEN e.vol ELSE 0)
    BY <1>1, <1>2, <1>3, TradedAppend
  <2>2. e.b + Span(i) = Top(r) <=> i = 0
    <3>1. Span(i) \in Nat /\ (Span(i) = Span(0) => i = 0) /\ Span(0) = 0
      BY <1>7, SpanNat, SpanOrder, SpanFacts
    <3>2. i = 0 => Span(i) = 0  BY <3>1
    <3> QED  BY <1>2, <1>3, <3>1, <3>2
  <2>3. NetVolume(Back(r, i)) = Traded(tr, i, Top(r))  BY <1>1 DEF Exact
  <2> QED  BY <1>7, <2>1, <2>2, <2>3
<1>10. Placed(q, new)
  <2> SUFFICES ASSUME NEW n \in DOMAIN new
               PROVE  \E j \in Nat : /\ new[n].b + Span(j) = Top(r)
                                     /\ j < r.count \/ r.count = Ring
    BY <1>4, <1>6 DEF Placed
  <2>1. Len(tr) \in Nat /\ DOMAIN tr = 1 .. Len(tr)  BY <1>1, TradeFacts
  <2>2. CASE n \in DOMAIN tr
    <3>1. new[n] = tr[n]  BY <1>1, <2>1, <2>2
    <3> QED  BY <1>1, <2>2, <3>1 DEF Placed
  <2>3. CASE n \notin DOMAIN tr
    <3>1. new[n] = e  BY <1>1, <2>1, <2>3
    <3>2. new[n].b + Span(0) = Top(r)
      <4>1. Span(0) = 0  BY SpanFacts
      <4> QED  BY <1>2, <1>3, <3>1, <4>1
    <3>3. 0 < r.count  BY <1>2
    <3> QED  BY <3>2, <3>3
  <2> QED  BY <2>2, <2>3
<1> QED  BY <1>4, <1>5, <1>6, <1>8, <1>9, <1>10 DEF RingInv, q, e

-----------------------------------------------------------------------------
(* The invariant *)

LEMMA WindowInit == Init => WindowInv
<1> SUFFICES ASSUME Init PROVE WindowInv
  OBVIOUS
<1>1. /\ buckets = [s \in Slot |-> Fresh(0)] /\ head = 0 /\ count = 0 /\ midprice = 0
      /\ net_delta = 0 /\ now \in Nat /\ trades = <<>>
  BY DeltaAssumption DEF Init
<1>2. RingType(ring) /\ ring.count = 0
  BY <1>1, RingSize DEF RingType, ring, Fresh, Bucket
<1>3. trades \in Seq(Trade) /\ DOMAIN trades = {}  BY <1>1
<1>4. RingInv(ring, trades)
  BY <1>2, <1>3 DEF RingInv, Tiled, Exact, Placed, Live
<1>5. InWindow = {}  BY <1>3 DEF InWindow
<1>6. NetDeltaExact  BY <1>1, <1>5, SumEmpty DEF NetDeltaExact
<1> QED  BY <1>1, <1>3, <1>4, <1>5, <1>6 DEF WindowInv

\* recompute makes the net delta that of the new ring.
LEMMA Recomputed ==
    ASSUME NEW r, RingInv(r, trades'), recompute(r)
    PROVE  /\ RingInv(ring', trades') /\ NetDeltaExact'
           /\ HeadTs' = Top(r) /\ InWindow' = Inside(r, trades') /\ count' = r.count
<1>1. RingType(r)  BY DEF RingInv
<1>2. buckets' = r.buckets /\ head' = r.head /\ count' = r.count /\ net_delta' = WindowSum(r)
  BY DEF recompute
<1>3. ring' = r  BY <1>1, <1>2 DEF ring, RingType
<1>4. HeadTs' = Top(r)  BY <1>2 DEF HeadTs, Top
<1>5. InWindow' = Inside(r, trades')  BY <1>4 DEF InWindow, Inside
<1>6. net_delta' = SumFunctionOnSet(Vol(trades'), Inside(r, trades'))
  BY <1>2, WindowSumExact
<1>7. NetDeltaExact'  BY <1>5, <1>6 DEF NetDeltaExact, Vol
<1> QED  BY <1>2, <1>3, <1>4, <1>5, <1>7

\* What every event does, whether it is a trade or not.
LEMMA EventStep ==
    ASSUME WindowInv, NEW t \in Nat, now <= t, now' = t, midprice' \in Nat,
           NEW r, RingInv(r, trades'), recompute(r),
           r.count > 0, Top(r) = Top(advance_time(t)),
           trades' = trades \/ \E e \in Trade :
               /\ e.t = t /\ e.b = Top(r) /\ trades' = Append(trades, e)
    PROVE  /\ WindowInv'
           /\ ~Lagging /\ now' - now <= Window => ~Lagging'
<1> DEFINE a == advance_time(t)
<1>1. /\ RingInv(ring, trades) /\ now \in Nat /\ (count > 0 => HeadTs <= now)
      /\ \A k \in DOMAIN trades : trades[k].b <= trades[k].t /\ trades[k].t <= now
      /\ trades \in Seq(Trade) /\ count \in Nat /\ HeadTs \in Nat
  <2>1. RingInv(ring, trades)  BY DEF WindowInv
  <2>2. RingType(ring) /\ trades \in Seq(Trade)  BY <2>1 DEF RingInv
  <2>3. count \in Nat /\ HeadTs \in Nat
    BY <2>2, RingSize DEF RingType, ring, HeadTs, Bucket
  <2> QED  BY <2>1, <2>2, <2>3 DEF WindowInv
<1>2. /\ Top(a) \in Nat /\ Top(a) <= t
      /\ t - Top(a) >= BucketSize =>
           /\ count > 0 /\ t - HeadTs >= Window + BucketSize
           /\ \A n \in DOMAIN trades : ~(trades[n].b >= cutoff(Top(a)))
  <2>1. count > 0 => HeadTs <= t  BY <1>1
  <2> QED  BY <1>1, <2>1, Advance
<1> HIDE DEF a
<1>3. /\ RingInv(ring', trades') /\ NetDeltaExact'
      /\ HeadTs' = Top(a) /\ count' > 0
      /\ InWindow' = {k \in DOMAIN trades' : trades'[k].b >= cutoff(Top(a))}
  BY Recomputed DEF Inside, a
<1>4. ASSUME NEW k \in DOMAIN trades'
      PROVE  \/ k \in DOMAIN trades /\ trades'[k] = trades[k]
             \/ trades'[k].t = t /\ trades'[k].b = Top(a)
  <2>1. CASE trades' = trades  BY <2>1
  <2>2. CASE \E e \in Trade : e.t = t /\ e.b = Top(r) /\ trades' = Append(trades, e)
    <3>1. PICK e \in Trade : e.t = t /\ e.b = Top(r) /\ trades' = Append(trades, e)
      BY <2>2
    <3>2. \/ k \in DOMAIN trades /\ trades'[k] = trades[k]
          \/ trades'[k] = e
      BY <1>1, <3>1, AppendTrade
    <3> QED  BY <3>1, <3>2 DEF a
  <2> QED  BY <2>1, <2>2
<1>5. \A k \in DOMAIN trades' : trades'[k].b <= trades'[k].t /\ trades'[k].t <= t
  <2> SUFFICES ASSUME NEW k \in DOMAIN trades'
               PROVE  trades'[k].b <= trades'[k].t /\ trades'[k].t <= t
    OBVIOUS
  <2>1. CASE k \in DOMAIN trades /\ trades'[k] = trades[k]
    <3>1. trades[k].t \in Nat  BY <1>1, <2>1, TradeFacts
    <3> QED  BY <1>1, <2>1, <3>1
  <2>2. CASE trades'[k].t = t /\ trades'[k].b = Top(a)  BY <1>2, <2>2
  <2> QED  BY <1>4, <2>1, <2>2
<1>6. Lagging' <=> t - Top(a) >= BucketSize  BY <1>3 DEF Lagging
<1>7. ASSUME Lagging', NEW k \in InWindow' PROVE trades'[k].t = t
  BY <1>2, <1>3, <1>4, <1>6, <1>7
<1>8. WindowInv'
  BY <1>2, <1>3, <1>5, <1>7 DEF WindowInv
<1>9. ASSUME ~Lagging, t - now <= Window PROVE ~Lagging'
  <2>1. ~(count > 0 /\ now - HeadTs >= BucketSize)  BY <1>9 DEF Lagging
  <2> QED  BY <1>1, <1>2, <1>6, <1>9, <2>1, DeltaAssumption
<1> QED  BY <1>8, <1>9

LEMMA WindowStep ==
    WindowInv /\ [Next]_vars => WindowInv' /\ (~Lagging /\ now' - now <= Window => ~Lagging')
<1> SUFFICES ASSUME WindowInv, [Next]_vars
             PROVE  WindowInv' /\ (~Lagging /\ now' - now <= Window => ~Lagging')
  OBVIOUS
<1>1. /\ RingInv(ring, trades) /\ now \in Nat /\ midprice \in Nat
      /\ (count > 0 => HeadTs <= now) /\ trades \in Seq(Trade)
  BY DEF WindowInv, RingInv
<1>2. ASSUME NEW g \in Gap, Feed(now + g)
      PROVE  LET t == now + g
                 a == advance_time(t)
             IN  /\ t \in Nat /\ now <= t /\ now' = t /\ midprice' \in Nat
                 /\ RingInv(a, trades) /\ a.count > 0 /\ Top(a) \in Nat
  <2> DEFINE t == now + g
  <2>1. t \in Nat /\ now <= t  BY <1>1, DeltaAssumption
  <2>2. now' = t /\ midprice' \in Nat  BY <1>1, <1>2, DeltaAssumption DEF Feed, set_midprice
  <2>3. count > 0 => HeadTs <= t
    <3>1. HeadTs \in Nat  BY <1>1 DEF RingInv, RingType, ring, HeadTs, Bucket
    <3> QED  BY <1>1, <2>1, <3>1
  <2> HIDE DEF t
  <2> QED  BY <1>1, <2>1, <2>2, <2>3, Advance DEF t
<1>3. ASSUME NEW g \in Gap, NEW price \in TradePrice, NEW qty \in Volume,
             OnTrade(now + g, price, qty)
      PROVE  WindowInv' /\ (~Lagging /\ now' - now <= Window => ~Lagging')
  <2> DEFINE t == now + g
             a == advance_time(t)
             e == [t |-> t, b |-> Top(a), vol |-> IF IsBuy(price, midprice') THEN qty ELSE -qty]
             r == Add(a, price, qty, midprice')
  <2>1. Feed(t) /\ recompute(r) /\ trades' = Append(trades, e)
    BY <1>3 DEF OnTrade, Top
  <2>2. /\ t \in Nat /\ now <= t /\ now' = t /\ midprice' \in Nat
        /\ RingInv(a, trades) /\ a.count > 0 /\ Top(a) \in Nat
    BY <1>2, <2>1
  <2>3. price \in Nat /\ qty \in Nat  BY DeltaAssumption
  <2>4. e \in Trade /\ e.t = t /\ e.b = Top(a)  BY <2>2, <2>3 DEF Trade
  <2> HIDE DEF t, a
  <2>5. RingInv(r, Append(trades, e)) /\ r.count = a.count /\ Top(r) = Top(a)
    BY <2>2, <2>3, AddTrade
  <2> HIDE DEF r, e
  <2>6. RingInv(r, trades') /\ r.count > 0 /\ Top(r) = Top(advance_time(t))
    BY <2>1, <2>2, <2>5 DEF a
  <2>7. \E d \in Trade : d.t = t /\ d.b = Top(r) /\ trades' = Append(trades, d)
    BY <2>1, <2>4, <2>5
  <2> QED  BY <2>1, <2>2, <2>6, <2>7, EventStep
<1>4. ASSUME NEW g \in Gap, OnQuote(now + g)
      PROVE  WindowInv' /\ (~Lagging /\ now' - now <= Window => ~Lagging')
  <2> DEFINE t == now + g
             a == advance_time(t)
  <2>1. Feed(t) /\ recompute(a) /\ trades' = trades  BY <1>4 DEF OnQuote
  <2>2. /\ t \in Nat /\ now <= t /\ now' = t /\ midprice' \in Nat
        /\ RingInv(a, trades) /\ a.count > 0
    BY <1>2, <2>1
  <2> HIDE DEF t
  <2> QED  BY <2>1, <2>2, EventStep
<1>5. CASE reset
  <2>1. /\ buckets' = [s \in Slot |-> Fresh(0)] /\ head' = 0 /\ count' = 0
        /\ midprice' = midprice /\ net_delta' = 0 /\ now' = now /\ trades' = <<>>
    BY <1>5 DEF reset
  <2>2. RingType(ring') /\ ring'.count = 0
    BY <2>1, RingSize DEF RingType, ring, Fresh, Bucket
  <2>3. trades' \in Seq(Trade) /\ DOMAIN trades' = {}  BY <2>1
  <2>4. RingInv(ring', trades')
    BY <2>2, <2>3 DEF RingInv, Tiled, Exact, Placed, Live
  <2>5. InWindow' = {}  BY <2>3 DEF InWindow
  <2>6. NetDeltaExact'  BY <2>1, <2>5, SumEmpty DEF NetDeltaExact
  <2>7. ~Lagging'  BY <2>1 DEF Lagging
  <2> QED  BY <1>1, <2>1, <2>3, <2>4, <2>5, <2>6, <2>7 DEF WindowInv
<1>6. CASE UNCHANGED vars
  <2>1. /\ ring' = ring /\ trades' = trades /\ now' = now /\ midprice' = midprice
        /\ count' = count /\ HeadTs' = HeadTs /\ net_delta' = net_delta
    BY <1>6 DEF vars, deltas, ring, HeadTs
  <2>2. InWindow' = InWindow /\ (Lagging' <=> Lagging)
    BY <2>1 DEF InWindow, Lagging
  <2>3. NetDeltaExact'  BY <2>1, <2>2 DEF WindowInv, NetDeltaExact
  <2> QED  BY <2>1, <2>2, <2>3 DEF WindowInv
<1> QED  BY <1>3, <1>4, <1>5, <1>6 DEF Next

\* The window's edges, from the invariant.
LEMMA WindowEdges == WindowInv => WindowExact
<1> SUFFICES ASSUME WindowInv PROVE WindowExact
  OBVIOUS
<1>1. /\ RingInv(ring, trades) /\ now \in Nat /\ (count > 0 => HeadTs <= now)
      /\ \A k \in DOMAIN trades : trades[k].b <= trades[k].t /\ trades[k].t <= now
      /\ Lagging => \A k \in InWindow : trades[k].t = now
      /\ trades \in Seq(Trade) /\ Placed(ring, trades) /\ ring.count = count
      /\ count \in Nat /\ HeadTs \in Nat /\ Top(ring) = HeadTs
  BY RingSize DEF WindowInv, RingInv, RingType, ring, HeadTs, Bucket, Top
<1>2. ASSUME NEW k \in DOMAIN trades
      PROVE  /\ count > 0 /\ trades[k].b \in Nat /\ trades[k].t \in Nat
             /\ \E j \in Nat : trades[k].b + Span(j) = HeadTs
  <2>1. PICK j \in Nat : trades[k].b + Span(j) = HeadTs /\ (j < count \/ count = Ring)
    BY <1>1 DEF Placed
  <2> QED  BY <1>1, <2>1, TradeFacts, RingSize
<1>3. ASSUME NEW k \in InWindow PROVE now - trades[k].t < Window + BucketSize
  <2>1. k \in DOMAIN trades /\ trades[k].b >= cutoff(HeadTs)  BY DEF InWindow
  <2>2. CASE Lagging  BY <1>1, <1>2, <2>1, <2>2, DeltaAssumption
  <2>3. CASE ~Lagging
    <3>1. now - HeadTs < BucketSize  BY <1>1, <1>2, <2>1, <2>3, DeltaAssumption DEF Lagging
    <3>2. trades[k].b + Window >= HeadTs
      BY <1>1, <1>2, <2>1, DeltaAssumption DEF cutoff
    <3> QED  BY <1>1, <1>2, <2>1, <3>1, <3>2, DeltaAssumption
  <2> QED  BY <2>2, <2>3
<1>4. ASSUME ~Lagging, NEW k \in DOMAIN trades,
             now - trades[k].t <= Window, trades[k].t - trades[k].b < BucketSize
      PROVE  k \in InWindow
  <2>1. PICK j \in Nat : trades[k].b + Span(j) = HeadTs  BY <1>2
  <2>2. PICK m \in Nat : Window = Span(m)  BY WindowBuckets
  <2>3. /\ Span(j) \in Nat /\ Span(m + 1) = Window + BucketSize
        /\ (m + 1 <= j => Span(m + 1) <= Span(j)) /\ (j <= m => Span(j) <= Span(m))
    <3>1. Span(m + 1) = Span(m) + Span(1)  BY SpanFacts
    <3>2. Span(1) = BucketSize  BY SpanFacts
    <3>3. m + 1 \in Nat  OBVIOUS
    <3> QED  BY <2>2, <3>1, <3>2, <3>3, SpanNat, SpanOrder
  <2>4. Span(j) < Window + BucketSize
    BY <1>1, <1>2, <1>4, <2>1, <2>3, DeltaAssumption
  <2>5. Span(j) <= Window
    <3>1. j <= m  BY <2>3, <2>4, DeltaAssumption
    <3> QED  BY <2>2, <2>3, <3>1
  <2> QED  BY <1>1, <1>2, <2>1, <2>3, <2>5, DeltaAssumption DEF InWindow, cutoff
<1> QED  BY <1>3, <1>4 DEF WindowExact

-----------------------------------------------------------------------------
\* However the ring wraps and whatever it drops, the net delta that recompute leaves is
\* the net volume of the trades whose bucket is inside the window.
THEOREM DeltaExact == Spec => []NetDeltaExact
<1>1. WindowInv /\ [Next]_vars => WindowInv'  BY WindowStep
<1>2. WindowInv => NetDeltaExact  BY DEF WindowInv
<1> QED  BY WindowInit, <1>1, <1>2, PTL DEF Spec

\* A trade older than the window and a bucket is never counted, however far the capped
\* advance_time has let the head fall behind; a head that has caught up misses none.
THEOREM WindowIsExact == Spec => []WindowExact
<1>1. WindowInv /\ [Next]_vars => WindowInv'  BY WindowStep
<1> QED  BY WindowInit, <1>1, WindowEdges, PTL DEF Spec

\* The cap on the buckets advance_time opens never bites within a window of silence.
THEOREM ShortSilence == Spec => ShortSilenceHarmless
<1>1. WindowInv /\ [Next]_vars => WindowInv'  BY WindowStep
<1>2. WindowInv /\ [Next]_vars => [(~Lagging /\ now' - now <= Window) => ~Lagging']_vars
  BY WindowStep
<1> QED  BY WindowInit, <1>1, <1>2, PTL DEF Spec, ShortSilenceHarmless

=============================================================================
