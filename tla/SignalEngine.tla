----------------------------- MODULE SignalEngine -----------------------------
(***************************************************************************)
(* sq::SignalEngine (src/alpha/signal_engine.cpp): a signal where the      *)
(* delta factor and the cancel factor agree.  The delta factor has its own *)
(* module; here its value is an input.                                     *)
(***************************************************************************)
EXTENDS CancelFactor

CONSTANTS
    DeltaValue,    \* values of the delta factor
    ThreshDelta,   \* thresh_delta_
    MinCancelZ     \* min_cancel_z_, as a z-score

ASSUME SignalAssumption ==
    /\ DeltaValue \subseteq Int /\ ThreshDelta \in Nat
    /\ MinCancelZ \in [num : Nat, den : Nat \ {0}]

VARIABLES
    now,           \* timestamp of the last event
    factor,        \* cancel_
    a_delta,       \* delta_.value() at the last event
    direction,     \* what the last event signalled
    last_signal,   \* last_signal_
    \* history: the time of the first event, [t, b, side] of every cancellation with its
    \* time and that of the bucket it was put in, [ts, z] of every sample
    first, cancels, samples

signalVars == <<now, factor, a_delta, direction, last_signal, first, cancels, samples>>

NoSignal == [ts |-> 0, l1 |-> 0, dir |-> "None"]

SignalInit ==
    /\ now = 0 /\ factor = NewFactor
    /\ a_delta = 0 /\ direction = "None" /\ last_signal = NoSignal
    /\ first = 0 /\ cancels = <<>> /\ samples = <<>>

thresh_cancel(f, min_z) == ZMax(min_z, dynamic_threshold(f))

\* The direction an engine with the floor min_z signals.
Decide(f, delta, min_z) ==
    CASE delta > ThreshDelta /\ ZLess(thresh_cancel(f, min_z), f.z["Offer"]) -> "Buy"
      [] delta < -ThreshDelta /\ ZLess(thresh_cancel(f, min_z), f.z["Bid"]) -> "Sell"
      [] OTHER -> "None"

\* on_event, for an event of time t that leaves the book at bid and ask (0: empty).
OnEvent(t, cancel, delta, bid, ask) ==
    /\ now' = t
    /\ factor' = on_event(factor, t, cancel)
    /\ a_delta' = delta
    /\ direction' = Decide(factor', delta, MinCancelZ)
    /\ last_signal' = IF direction' = "None" THEN last_signal
                      ELSE [ts |-> t, l1 |-> IF direction' = "Buy" THEN ask ELSE bid,
                            dir |-> direction']
    /\ first' = IF factor.count = 0 THEN t ELSE first
    /\ cancels' = IF cancel = "None" THEN cancels
                  ELSE Append(cancels, [t |-> t, b |-> HeadTs(factor'), side |-> cancel])
    /\ samples' = IF factor'.count < 2 THEN samples
                  ELSE Append(samples, Sample(factor'))

-----------------------------------------------------------------------------
\* The buckets inside the window, since the first event, by their distance from the
\* head.
WindowBuckets ==
    {i \in 0 .. Window \div BucketSize : HeadTs(factor) - i * BucketSize >= first}

\* The cancellations of a side in the bucket i places behind the head.
CancelsIn(side, i) ==
    Cardinality({k \in DOMAIN cancels : /\ cancels[k].side = side
                                        /\ cancels[k].b + i * BucketSize = HeadTs(factor)})

\* The z-score by its definition, from the list of cancellations.
TrueZ(side) ==
    LET w == WindowBuckets IN
    ZScore(Cardinality(w), CancelsIn(side, 0),
           SumFunctionOnSet([i \in w |-> CancelsIn(side, i)], w),
           SumFunctionOnSet([i \in w |-> CancelsIn(side, i) * CancelsIn(side, i)], w))

\* CancelFactor against the list: through wraps of the ring, silences longer than it
\* and buckets without an event, both scores are those of the cancellations in the
\* window, and never those of an earlier event.
ZScoresExact ==
    factor.count >= 2 => \A side \in Side : factor.z[side] = TrueZ(side)

\* The window by the clock.  Only the head's time is looked at, and after a silence
\* longer than the ring the head stays behind the clock, event after event.  Still no
\* cancellation older than a window and a bucket is in the window; and one that is not
\* older than a window is, unless it was itself put in a bucket behind the clock.
WindowByTheClock ==
    \A k \in DOMAIN cancels :
        LET c == cancels[k]
            counted == c.b >= cutoff(HeadTs(factor))
        IN /\ counted => now < c.t + Window + BucketSize
           /\ c.t < c.b + BucketSize /\ now <= c.t + Window => counted

\* The samples of the quantile's time span, among all there ever were.
Retained == {i \in DOMAIN samples : samples[i].ts >= q_cutoff(HeadTs(factor))}

SignalZ == factor.z[IF direction = "Buy" THEN "Offer" ELSE "Bid"]

\* A signal's score is above the floor, and above more samples than the stated percentile
\* of those that are not too old, its own among them: whatever the number of samples,
\* the place of the threshold is never rounded below its share.
SignalIsExtreme ==
    direction # "None" =>
        /\ ZLess(MinCancelZ, SignalZ)
        /\ 100 * Cardinality({i \in Retained : ZLess(samples[i].z, SignalZ)})
              > Percentile * (Cardinality(Retained) - 1)
=============================================================================
