----------------------------- MODULE CancelFactor -----------------------------
(***************************************************************************)
(* sq::CancelFactor (src/alpha/cancel_factor.cpp): cancellations counted   *)
(* per side in a ring of time buckets, the z-score of the newest bucket    *)
(* within a window, and a quantile of the recent z-scores.  The factor is  *)
(* a value, its methods are functions on it.  What the code keeps in pairs *)
(* of fields, for the bids and for the asks, is a function of the side.    *)
(*                                                                         *)
(* A z-score (c - mean) / sigma over n buckets with sum S and sum of       *)
(* squares Q is (n*c - S) / sqrt(n*Q - S^2).  It is kept as its square,    *)
(* with its sign, as a fraction [num, den], which orders the same way      *)
(* and needs no root.                                                      *)
(***************************************************************************)
EXTENDS Integers, Sequences, FiniteSetsExt

CONSTANTS
    BucketSize,   \* kBucketNs
    Window,       \* kWindowNs
    Quantile,     \* kQuantileNs
    Ring,         \* kMaxBuckets
    Percentile    \* 95

\* The window of 100 whole buckets fits the ring of 200.
ASSUME CancelAssumption ==
    /\ BucketSize \in Nat \ {0} /\ Ring \in Nat \ {0}
    /\ Window \in Nat \ {0} /\ Window % BucketSize = 0
    /\ Window \div BucketSize + 1 <= Ring
    /\ Quantile \in Nat /\ Percentile \in 0 .. 99

Slot == 0 .. Ring - 1
Side == {"Bid", "Offer"}

-----------------------------------------------------------------------------
(* z-scores *)

NoZ == [num |-> 0, den |-> 1]

ZLess(a, b) == a.num * b.den < b.num * a.den

ZMax(a, b) == IF ZLess(a, b) THEN b ELSE a

\* Fault: the mean is not subtracted.
ZScore_Uncentred(n, c, sum, squares) ==
    LET v == n * squares - sum * sum
    IN IF v = 0 THEN NoZ ELSE [num |-> n * n * c * c, den |-> v]

\* Equal counts have no deviation and score 0.
ZScore(n, c, sum, squares) ==
    LET p == n * c - sum
        v == n * squares - sum * sum
    IN IF v = 0 THEN NoZ ELSE [num |-> IF p < 0 THEN -(p * p) ELSE p * p, den |-> v]

-----------------------------------------------------------------------------
(* The ring *)

Fresh(ts) == [ts |-> ts, cancels |-> [side \in Side |-> 0]]

\* reset
NewFactor ==
    [buckets |-> [s \in Slot |-> Fresh(0)], head |-> 0, count |-> 0,
     z |-> [side \in Side |-> NoZ], recent |-> <<>>]

HeadTs(f) == f.buckets[f.head].ts

\* The bucket i places behind the head.
Bucket(f, i) == f.buckets[(f.head + Ring - i) % Ring]

\* Fault: a bucket that is used again keeps its counts.
Open_Dirty(f, k) ==
    [f EXCEPT
        !.buckets = [s \in Slot |->
            LET i == ((s + Ring - f.head - 1) % Ring) + 1 IN
            IF i <= k THEN [f.buckets[s] EXCEPT !.ts = HeadTs(f) + i * BucketSize]
                      ELSE f.buckets[s]],
        !.head = (@ + k) % Ring,
        !.count = Min({@ + k, Ring})]

\* k buckets are opened behind one another.
Open(f, k) ==
    [f EXCEPT
        !.buckets = [s \in Slot |->
            LET i == ((s + Ring - f.head - 1) % Ring) + 1 IN
            IF i <= k THEN Fresh(HeadTs(f) + i * BucketSize) ELSE f.buckets[s]],
        !.head = (@ + k) % Ring,
        !.count = Min({@ + k, Ring})]

\* Fault: one bucket per event.
advance_time_OneStep(f, t) ==
    IF f.count = 0 THEN [f EXCEPT !.buckets[0] = Fresh(t), !.head = 0, !.count = 1]
    ELSE IF t < HeadTs(f) + BucketSize THEN f
    ELSE Open(f, 1)

\* At most Ring buckets per event, so the head may stay behind the clock.
advance_time(f, t) ==
    IF f.count = 0 THEN [f EXCEPT !.buckets[0] = Fresh(t), !.head = 0, !.count = 1]
    ELSE IF t < HeadTs(f) + BucketSize THEN f
    ELSE Open(f, Min({(t - HeadTs(f)) \div BucketSize, Ring}))

\* cancel: the side of a Delete, "None" for any other event and for a Delete of a
\* trade.
CountCancel(f, cancel) ==
    IF cancel \in Side THEN [f EXCEPT !.buckets[f.head].cancels[cancel] = @ + 1] ELSE f

cutoff(ts) == IF ts >= Window THEN ts - Window ELSE 0

\* The loop of recompute_zscores stops at the first bucket that is too old.
InWindow(f) ==
    {i \in 0 .. f.count - 1 : \A j \in 0 .. i : Bucket(f, j).ts >= cutoff(HeadTs(f))}

\* The score of the newest bucket among those in w.
Score(f, w, side) ==
    LET c == [i \in w |-> Bucket(f, i).cancels[side]]
        squares == [i \in w |-> c[i] * c[i]]
    IN ZScore(Cardinality(w), Bucket(f, 0).cancels[side],
              SumFunctionOnSet(c, w), SumFunctionOnSet(squares, w))

q_cutoff(ts) == IF ts >= Quantile THEN ts - Quantile ELSE 0

\* Samples are dropped from the front, up to the first that is not too old.
Expire(s, ts) ==
    SubSeq(s, Min({i \in DOMAIN s : s[i].ts >= q_cutoff(ts)} \cup {Len(s) + 1}), Len(s))

\* The larger of the two scores is all of a sample that dynamic_threshold looks at.
Sample(f) == [ts |-> HeadTs(f), z |-> ZMax(f.z["Bid"], f.z["Offer"])]

Remember(f) == [f EXCEPT !.recent = Expire(Append(@, Sample(f)), HeadTs(f))]

\* With fewer than two buckets the scores stay what they were.
recompute_zscores(f) ==
    LET w == InWindow(f) IN
    IF f.count < 2 \/ Cardinality(w) < 2 THEN f
    ELSE Remember([f EXCEPT !.z = [side \in Side |-> Score(f, w, side)]])

on_event(f, t, cancel) == recompute_zscores(CountCancel(advance_time(f, t), cancel))

-----------------------------------------------------------------------------
(* The quantile *)

\* Fault: the share is taken of one sample less.
QuantileIndex_Short(n) == IF n < 2 THEN 0 ELSE (Percentile * (n - 2)) \div 100

\* idx of dynamic_threshold, for n samples.
QuantileIndex(n) == (Percentile * (n - 1)) \div 100

\* The sample at place idx in ascending order; 2.0 before there is one.
dynamic_threshold(f) ==
    LET r == f.recent
        idx == QuantileIndex(Len(r))
    IN IF r = <<>> THEN [num |-> 4, den |-> 1]
       ELSE CHOOSE x \in {r[i].z : i \in DOMAIN r} :
               /\ Cardinality({i \in DOMAIN r : ZLess(r[i].z, x)}) <= idx
               /\ Cardinality({i \in DOMAIN r : ~ZLess(x, r[i].z)}) > idx
=============================================================================
