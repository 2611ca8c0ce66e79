----------------------------- MODULE MCDeltaFactor -----------------------------
(***************************************************************************)
(* A window of two buckets in a ring of four, so that the ring wraps, and  *)
(* silences from nothing to several times the window.                      *)
(***************************************************************************)
EXTENDS DeltaFactor

MCMid        == {2}
MCTradePrice == {1, 2}
MCVolume     == {1}
MCGap        == {0, 1, 4, 17}
=============================================================================
