------------------------------ MODULE MCBacktest ------------------------------
(***************************************************************************)
(* A window of five buckets of 2 in a ring of six; records a fraction of a *)
(* bucket, a window and more than a ring apart; a percentile of 60, so     *)
(* that several signals can follow each other on few samples.              *)
(***************************************************************************)
EXTENDS Backtest

MCRecords ==
    {[cancel |-> "None",  bid |-> 4, ask |-> 5],
     [cancel |-> "Offer", bid |-> 3, ask |-> 4],
     [cancel |-> "Offer", bid |-> 3, ask |-> 0],
     [cancel |-> "Bid",   bid |-> 2, ask |-> 3]}

MCGap        == {1, 8, 14}
MCDeltaValue == {-2, 1, 2}

\* 1.5, and a value out of reach of any score, as 1e9 is.
MCMinCancelZ   == [num |-> 9, den |-> 4]
MCSfMinCancelZ == [num |-> 1000, den |-> 1]
=============================================================================
