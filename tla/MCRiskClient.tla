----------------------------- MODULE MCRiskClient -----------------------------
(***************************************************************************)
(* Small instance of RiskClient.  Fills slip by 0, 3 or 6 ticks, on either *)
(* side of the default thresholds of 2 and 5; the loss limit of 7 USD is   *)
(* crossed by the second or third bad fill.                                *)
(***************************************************************************)
EXTENDS RiskClient

MCPrice == {0, 200000, 200300, 200600}
=============================================================================
