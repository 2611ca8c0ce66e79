---------------------------- MODULE MCTradingEngine ----------------------------
(***************************************************************************)
(* Small instances of TradingEngine.  Signals are priced at 200000, fills  *)
(* slip by 3 ticks up or 6 ticks down.                                    *)
(***************************************************************************)
EXTENDS TradingEngine

MCPrice  == {0, 199400, 200000, 200300}
MCQuotes == {200000}

\* Slippage of 0, 3 and 6 ticks: either side of both thresholds.
GateFills == {199400, 200000, 200300}

\* No slippage: the gates stay open and only the order lifecycle matters.
CleanFills == {200000}

\* What on_execution_report has branches for, and CANCELED, which it has not.
HandledExecTypes == {"PARTIAL_FILL", "FILL", "REJECTED", "EXPIRED", "CANCELED"}

\* A trade and a refusal: what opens and what frees the way for the next entry.
TwoExecTypes == {"FILL", "EXPIRED"}

\* Slippage of 3 and 6 ticks only.
SlippedFills == {199400, 200300}

\* What FIX44.xml admits for tag 150 among the values modelled here.
DictionaryExecTypes == {"TRADE", "REJECTED", "EXPIRED", "CANCELED"}
=============================================================================
