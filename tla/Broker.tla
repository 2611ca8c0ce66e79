-------------------------------- MODULE Broker --------------------------------
(***************************************************************************)
(* The trade FIX session and the broker behind it, as OrderManager uses    *)
(* them: external to the repository.  Orders handed to sendToTarget reach  *)
(* the broker or are lost; the broker executes, rejects or expires them    *)
(* and answers with execution reports (35=8), delivered in order while the *)
(* session is up.  With ResetOnLogon=Y nothing is resent after a           *)
(* disconnect.                                                             *)
(***************************************************************************)
EXTENDS Integers, Sequences

CONSTANTS
    FillPrice,   \* LastPx (tag 31) of a report; 0 when the tag is absent
    ExecTypes,   \* ExecType values the session lets through to fromApp
    MaxReports   \* bound on the reports in flight

VARIABLES
    live,      \* orders the broker is working on: [clordid, side, qty, left]
    reports,   \* execution reports on the wire, oldest first
    net        \* the account's true position, in parts of a lot

brokerVars == <<live, reports, net>>

\* ExecType (tag 150).  The first three report a trade.
FillTypes    == {"PARTIAL_FILL", "FILL", "TRADE"}
AllExecTypes == FillTypes \cup {"REJECTED", "EXPIRED", "CANCELED"}

LiveOrder == [clordid : Nat, side : {"Buy", "Sell"}, qty : Nat, left : Nat]
Report    == [clordid : Nat, type : AllExecTypes, px : FillPrice]

ASSUME BrokerAssumption ==
    /\ ExecTypes \subseteq AllExecTypes
    /\ MaxReports \in Nat

BrokerInit == live = {} /\ reports = <<>> /\ net = 0

\* sendToTarget while the connection works
Accept(o) ==
    /\ live' = live \cup {[clordid |-> o.clordid, side |-> o.side,
                           qty |-> o.qty, left |-> o.qty]}
    /\ UNCHANGED <<reports, net>>

\* n parts of l trade, which is all of l.left or not according to the type.
Traded(l, type, n) ==
    \/ type = "PARTIAL_FILL" /\ n \in 1 .. (l.left - 1)
    \/ type = "FILL" /\ n = l.left
    \/ type = "TRADE" /\ n \in 1 .. l.left

\* The broker settles some of l and reports it, if the session is up.
Answer(l, type, n, px, up) ==
    /\ l \in live /\ type \in ExecTypes
    /\ Len(reports) < MaxReports
    /\ \/ Traded(l, type, n)
       \/ type \notin FillTypes /\ n = 0 /\ (type = "REJECTED" => l.left = l.qty)
    /\ live' = (live \ {l}) \cup
               IF type \in FillTypes /\ n < l.left
               THEN {[l EXCEPT !.left = @ - n]} ELSE {}
    /\ net' = IF l.side = "Buy" THEN net + n ELSE net - n
    /\ reports' = IF up
                  THEN Append(reports, [clordid |-> l.clordid, type |-> type, px |-> px])
                  ELSE reports

\* A disconnect loses what is still on the wire.
DropWire == reports' = <<>> /\ UNCHANGED <<live, net>>

BrokerTypeOK ==
    /\ live \subseteq LiveOrder
    /\ reports \in Seq(Report)
    /\ net \in Int
=============================================================================
