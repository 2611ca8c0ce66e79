----------------------------- MODULE OrderManager -----------------------------
(***************************************************************************)
(* sq::OrderManager (src/oms/order_manager.cpp).  Two threads are in it:   *)
(* the alpha thread runs send_ioc and cancel_order, the QuickFIX thread    *)
(* runs the session callbacks.  Neither takes a lock, so each method is    *)
(* cut where the other thread can observe it:                              *)
(*                                                                         *)
(*   send_ioc             out -> insert -> register -> transmit (-> unwind)*)
(*   on_execution_report  idle -> gate -> erase                            *)
(*                                                                         *)
(* open_orders_ is a std::unordered_map changed by both threads.  The data *)
(* race is modelled by its benign outcome: a lookup that overlaps another  *)
(* thread's insert or erase may fail to find the element.                  *)
(***************************************************************************)
EXTENDS RiskManager, Broker

\* to_price(LastPx) is a Price
ASSUME OmsAssumption == FillPrice \subseteq Price

VARIABLES
    clock,         \* TscClock::now_ns()
    logged_on,     \* atomic<bool> logged_on_
    order_seq,     \* atomic<uint64_t> order_seq_; ClOrdID n stands for "SQ_n"
    open_orders,   \* open_orders_: set of orders, each keyed by its clordid
    send_pc,       \* where the alpha thread is inside send_ioc
    draft,         \* send_ioc: the order being sent
    draft_ts,      \* send_ioc: its ts_ns argument
    er_pc,         \* where the FIX thread is inside on_execution_report
    er             \* on_execution_report: locals of the report in hand

omsVars == <<logged_on, order_seq, open_orders, send_pc, draft, draft_ts, er_pc, er>>

ErLocals == [clordid : Nat, slip : Nat, now : Time, done : BOOLEAN]
NoReport == [clordid |-> 0, slip |-> 0, now |-> 0, done |-> FALSE]

OmsInit ==
    /\ logged_on = FALSE
    /\ order_seq = 1
    /\ open_orders = {}
    /\ send_pc = "out"
    /\ draft = NoOrder /\ draft_ts = 0
    /\ er_pc = "idle"
    /\ er = NoReport

Found(id) == {o \in open_orders : o.clordid = id}

-----------------------------------------------------------------------------
(* Alpha thread *)

\* send_ioc up to the construction of the order; refused while not logged on.
send_ioc(side, qty, l1, ts) ==
    /\ send_pc = "out"
    /\ IF logged_on
       THEN /\ draft' = [clordid |-> order_seq, side |-> side, qty |-> qty, signal_l1 |-> l1]
            /\ draft_ts' = ts
            /\ order_seq' = order_seq + 1
            /\ send_pc' = "insert"
       ELSE UNCHANGED <<draft, draft_ts, order_seq, send_pc>>
    /\ UNCHANGED <<logged_on, open_orders, er_pc, er, riskVars, brokerVars>>

\* open_orders_[clordid] = o
SendInsert ==
    /\ send_pc = "insert"
    /\ open_orders' = open_orders \cup {draft}
    /\ send_pc' = "register"
    /\ UNCHANGED <<logged_on, order_seq, draft, draft_ts, er_pc, er, riskVars, brokerVars>>

\* risk_mgr_.on_order_sent(o, ts_ns)
SendRegister ==
    /\ send_pc = "register"
    /\ on_order_sent(draft, draft_ts)
    /\ send_pc' = "transmit"
    /\ UNCHANGED <<logged_on, order_seq, open_orders, draft, draft_ts, er_pc, er, brokerVars>>

\* sendToTarget: delivered, lost in a dying connection (its result is ignored),
\* or thrown back as SessionNotFound.
SendTransmit ==
    /\ send_pc = "transmit"
    /\ \/ logged_on /\ Accept(draft) /\ send_pc' = "out"
       \/ UNCHANGED brokerVars /\ send_pc' = "out"
       \/ UNCHANGED brokerVars /\ send_pc' = "unwind"
    /\ UNCHANGED <<logged_on, order_seq, open_orders, draft, draft_ts, er_pc, er, riskVars>>

\* Fault: the risk manager is not told.
SendUnwind_Silent ==
    /\ send_pc = "unwind"
    /\ open_orders' = open_orders \ {draft}
    /\ send_pc' = "out"
    /\ UNCHANGED <<logged_on, order_seq, draft, draft_ts, er_pc, er, riskVars, brokerVars>>

\* The catch block of send_ioc.
SendUnwind ==
    /\ send_pc = "unwind"
    /\ open_orders' = open_orders \ {draft}
    /\ on_reject
    /\ send_pc' = "out"
    /\ UNCHANGED <<logged_on, order_seq, draft, draft_ts, er_pc, er, brokerVars>>

\* cancel_order: an order it finds costs one more ClOrdID; the request itself
\* changes nothing here, the broker may cancel an IOC order at any time.
cancel_order(id) ==
    /\ \/ Found(id) # {} /\ order_seq' = order_seq + 1
       \/ (Found(id) = {} \/ er_pc = "erase") /\ UNCHANGED order_seq
    /\ UNCHANGED <<logged_on, open_orders, send_pc, draft, draft_ts, er_pc, er,
                   riskVars, brokerVars>>

-----------------------------------------------------------------------------
(* QuickFIX thread *)

onLogon ==
    /\ er_pc = "idle" /\ ~logged_on
    /\ logged_on' = TRUE
    /\ UNCHANGED <<order_seq, open_orders, send_pc, draft, draft_ts, er_pc, er,
                   riskVars, brokerVars>>

onLogout ==
    /\ er_pc = "idle" /\ logged_on
    /\ logged_on' = FALSE
    /\ DropWire
    /\ UNCHANGED <<order_seq, open_orders, send_pc, draft, draft_ts, er_pc, er, riskVars>>

TakeReport ==
    /\ er_pc = "idle" /\ reports # <<>>
    /\ reports' = Tail(reports)
    /\ UNCHANGED <<live, net, logged_on, order_seq, open_orders, send_pc, draft, draft_ts>>

\* on_execution_report for a report whose order is not found, or of an ExecType
\* it has no branch for.
ReportIgnored ==
    /\ TakeReport
    /\ LET r == Head(reports) IN
       \/ Found(r.clordid) = {}
       \/ send_pc \in {"insert", "unwind"}
       \/ r.type \notin {"FILL", "PARTIAL_FILL", "REJECTED", "EXPIRED"}
    /\ UNCHANGED <<er_pc, er, riskVars>>

\* FILL and PARTIAL_FILL: on_fill releases the position and charges the slippage ...
ReportFill ==
    /\ TakeReport
    /\ LET r == Head(reports) IN
       /\ r.type \in {"FILL", "PARTIAL_FILL"}
       /\ \E o \in Found(r.clordid) :
             LET slip == slippage_ticks(o.signal_l1, r.px) IN
             /\ FillBook(slip)
             /\ er' = [clordid |-> o.clordid, slip |-> slip, now |-> clock,
                       done |-> r.type = "FILL"]
    /\ er_pc' = "gate"
    /\ UNCHANGED <<fused, consec_slip_count, cooldown_start_ns>>

\* Fault: a partial fill is erased like a full one.
ReportGate_EraseAlways ==
    /\ er_pc = "gate"
    /\ FillGate(er.slip, daily_pnl, er.now)
    /\ er_pc' = "erase"
    /\ UNCHANGED <<has_position, open_order, position_open_ns, daily_pnl, total_trades,
                   logged_on, order_seq, open_orders, send_pc, draft, draft_ts, er, brokerVars>>

\* ... and only then updates the gates.
ReportGate ==
    /\ er_pc = "gate"
    /\ FillGate(er.slip, daily_pnl, er.now)
    /\ er_pc' = IF er.done THEN "erase" ELSE "idle"
    /\ UNCHANGED <<has_position, open_order, position_open_ns, daily_pnl, total_trades,
                   logged_on, order_seq, open_orders, send_pc, draft, draft_ts, er, brokerVars>>

ReportReject ==
    /\ TakeReport
    /\ LET r == Head(reports) IN
       /\ r.type \in {"REJECTED", "EXPIRED"}
       /\ Found(r.clordid) # {}
       /\ er' = [NoReport EXCEPT !.clordid = r.clordid]
    /\ on_reject
    /\ er_pc' = "erase"

\* open_orders_.erase(it)
ReportErase ==
    /\ er_pc = "erase"
    /\ open_orders' = open_orders \ Found(er.clordid)
    /\ er_pc' = "idle"
    /\ er' = NoReport
    /\ UNCHANGED <<logged_on, order_seq, send_pc, draft, draft_ts, riskVars, brokerVars>>

OmsTypeOK ==
    /\ logged_on \in BOOLEAN
    /\ order_seq \in Nat \ {0}
    /\ open_orders \subseteq Order
    /\ send_pc \in {"out", "insert", "register", "transmit", "unwind"}
    /\ draft \in Order /\ draft_ts \in Time
    /\ er_pc \in {"idle", "gate", "erase"}
    /\ er \in ErLocals
=============================================================================
