----------------------------- MODULE TradingEngine -----------------------------
(***************************************************************************)
(* smartquant_engine (apps/engine/main.cpp): the alpha thread that polls   *)
(* the market-data queue, forces timed-out positions closed and turns      *)
(* signals into IOC orders; the QuickFIX trade thread that applies         *)
(* execution reports; and main, which waits for a termination signal and   *)
(* shuts the others down.  Their shared state is RiskManager and           *)
(* OrderManager, whose fields neither thread locks.                        *)
(*                                                                         *)
(* alpha_pc is the place in alpha_thread_fn.  While send_pc # "out" the    *)
(* thread is inside send_ioc and alpha_pc is the place it returns to:      *)
(* "engine" from the force-close callback, "poll" from an entry order.     *)
(***************************************************************************)
EXTENDS OrderManager

CONSTANTS
    Quotes,     \* what best_bid() and best_ask() return; 0 for an empty side
    Lot,        \* qty of an entry order, in the broker's parts of a lot
    MaxTime,    \* bound on the clock
    MaxSeq,     \* bound on the ClOrdIDs used
    MaxQueue    \* bound on the market-data events waiting

ASSUME EngineAssumption ==
    /\ Quotes \subseteq Price
    /\ Lot \in Nat \ {0}
    /\ MaxTime \in Nat \ {0} /\ MaxTime < TimeMod
    /\ MaxSeq \in Nat /\ MaxQueue \in Nat

VARIABLES
    running,    \* g_running
    main_pc,    \* main: "loop" -> "join" -> "done"
    alpha_pc,   \* alpha_thread_fn: "poll", "timer", "close", "engine", "exited"
    alpha_now,  \* alpha_thread_fn: now_ns, read once per event
    md_queue,   \* number of events in the MdQueue
    \* history: entry orders put on the wire since the fuse blew ...
    fuse_entries,
    \* ... and inside the current cooldown, since it started
    cooldown_entries

engineVars == <<running, main_pc, alpha_pc, alpha_now, md_queue>>
history    == <<fuse_entries, cooldown_entries>>
vars       == <<riskVars, brokerVars, omsVars, clock, engineVars, history>>

Init ==
    /\ RiskInit /\ BrokerInit /\ OmsInit
    /\ clock = 1
    /\ running = TRUE /\ main_pc = "loop"
    /\ alpha_pc = "poll" /\ alpha_now = 0
    /\ md_queue = 0
    /\ fuse_entries = 0 /\ cooldown_entries = 0

Opposite(side) == IF side = "Buy" THEN "Sell" ELSE "Buy"

\* The alpha thread is inside send_ioc for a signal, not for a forced close.
SendingEntry == send_pc # "out" /\ alpha_pc = "poll"

-----------------------------------------------------------------------------
(* Alpha thread *)

\* queue.pop(ev) succeeds and the clock is read; an empty queue is spun on.
AlphaPop ==
    /\ alpha_pc = "poll" /\ send_pc = "out"
    /\ running
    /\ md_queue > 0
    /\ order_seq <= MaxSeq
    /\ md_queue' = md_queue - 1
    /\ alpha_now' = clock
    /\ alpha_pc' = "timer"
    /\ UNCHANGED <<riskVars, brokerVars, omsVars, clock, running, main_pc, history>>

\* Fault: g_running is looked at only once an event has been popped.
AlphaExit_AfterPop ==
    /\ alpha_pc = "poll" /\ send_pc = "out"
    /\ ~running
    /\ md_queue > 0
    /\ alpha_pc' = "exited"
    /\ UNCHANGED <<riskVars, brokerVars, omsVars, clock, running, main_pc, alpha_now,
                   md_queue, history>>

AlphaExit ==
    /\ alpha_pc = "poll" /\ send_pc = "out"
    /\ ~running
    /\ alpha_pc' = "exited"
    /\ UNCHANGED <<riskVars, brokerVars, omsVars, clock, running, main_pc, alpha_now,
                   md_queue, history>>

\* risk.on_timer: a timed-out position is cancelled first, then closed below.
AlphaTimer ==
    /\ alpha_pc = "timer"
    /\ IF timer_fires(alpha_now)
       THEN cancel_order(open_order.clordid) /\ alpha_pc' = "close"
       ELSE UNCHANGED <<riskVars, brokerVars, omsVars>> /\ alpha_pc' = "engine"
    /\ UNCHANGED <<clock, running, main_pc, alpha_now, md_queue, history>>

\* The second half of the force-close callback; open_order_ is passed by reference.
AlphaClose ==
    /\ alpha_pc = "close"
    /\ \E l1 \in Quotes :
          send_ioc(Opposite(open_order.side), open_order.qty, l1, alpha_now)
    /\ alpha_pc' = "engine"
    /\ UNCHANGED <<clock, running, main_pc, alpha_now, md_queue, history>>

\* engine.on_event raises no signal, or the risk manager refuses the one it raises.
AlphaNoEntry ==
    /\ alpha_pc = "engine" /\ send_pc = "out"
    /\ alpha_pc' = "poll"
    /\ UNCHANGED <<riskVars, brokerVars, omsVars, clock, running, main_pc, alpha_now,
                   md_queue, history>>

\* engine.on_event raises a signal, check_signal accepts it, send_ioc is entered.
AlphaEntry ==
    /\ alpha_pc = "engine"
    /\ check_signal(alpha_now)
    /\ \E side \in Side, l1 \in Quotes : send_ioc(side, Lot, l1, alpha_now)
    /\ alpha_pc' = "poll"
    /\ UNCHANGED <<clock, running, main_pc, alpha_now, md_queue, history>>

\* The steps of send_ioc that follow.
AlphaSend ==
    /\ SendInsert \/ SendRegister \/ SendUnwind
    /\ UNCHANGED <<clock, engineVars, history>>

AlphaTransmit ==
    /\ SendTransmit
    /\ LET entered == SendingEntry /\ live' # live IN
       /\ fuse_entries' = IF entered /\ fused THEN fuse_entries + 1 ELSE fuse_entries
       /\ cooldown_entries' = IF entered /\ in_cooldown(clock)
                              THEN cooldown_entries + 1 ELSE cooldown_entries
    /\ UNCHANGED <<clock, engineVars>>

-----------------------------------------------------------------------------
(* QuickFIX trade thread *)

FixSession ==
    /\ (main_pc = "loop" /\ onLogon) \/ onLogout
    /\ UNCHANGED <<clock, engineVars, history>>

FixReport ==
    /\ ReportIgnored \/ ReportFill \/ ReportReject \/ ReportErase
    /\ UNCHANGED <<clock, engineVars, history>>

\* A new cooldown opens a new count.
FixGate ==
    /\ ReportGate
    /\ cooldown_entries' = IF cooldown_start_ns' = cooldown_start_ns
                           THEN cooldown_entries ELSE 0
    /\ UNCHANGED <<clock, engineVars, fuse_entries>>

-----------------------------------------------------------------------------
(* main *)

\* SIGINT or SIGTERM
on_signal ==
    /\ running
    /\ running' = FALSE
    /\ UNCHANGED <<riskVars, brokerVars, omsVars, clock, main_pc, alpha_pc, alpha_now,
                   md_queue, history>>

\* md_gw.stop() and oms.stop() log the sessions out and wait for their threads.
MainStop ==
    /\ main_pc = "loop" /\ ~running
    /\ er_pc = "idle"
    /\ logged_on' = FALSE
    /\ DropWire
    /\ main_pc' = "join"
    /\ UNCHANGED <<riskVars, order_seq, open_orders, send_pc, draft, draft_ts, er_pc, er,
                   clock, running, alpha_pc, alpha_now, md_queue, history>>

\* alpha_thr.join()
MainJoin ==
    /\ main_pc = "join" /\ alpha_pc = "exited"
    /\ main_pc' = "done"
    /\ UNCHANGED <<riskVars, brokerVars, omsVars, clock, running, alpha_pc, alpha_now,
                   md_queue, history>>

-----------------------------------------------------------------------------
(* Environment *)

BrokerAnswers ==
    /\ \E l \in live, type \in ExecTypes, n \in 0 .. Lot, px \in FillPrice :
          Answer(l, type, n, px, logged_on)
    /\ UNCHANGED <<riskVars, omsVars, clock, engineVars, history>>

\* The market-data thread pushes an event, until md_gw.stop().
MdEvent ==
    /\ main_pc = "loop"
    /\ md_queue < MaxQueue
    /\ md_queue' = md_queue + 1
    /\ UNCHANGED <<riskVars, brokerVars, omsVars, clock, running, main_pc, alpha_pc,
                   alpha_now, history>>

Tick ==
    /\ clock < MaxTime
    /\ clock' = clock + 1
    /\ UNCHANGED <<riskVars, brokerVars, omsVars, engineVars, history>>

-----------------------------------------------------------------------------
Alpha ==
    \/ AlphaPop \/ AlphaExit \/ AlphaTimer \/ AlphaClose
    \/ AlphaNoEntry \/ AlphaEntry
    \/ AlphaSend \/ AlphaTransmit

Fix == FixReport \/ FixGate

Main == MainStop \/ MainJoin

Next ==
    \/ Alpha
    \/ Fix \/ FixSession
    \/ Main \/ on_signal
    \/ BrokerAnswers \/ MdEvent \/ Tick

Spec == Init /\ [][Next]_vars

\* The threads are scheduled; the broker, the feed, the operator and the
\* connection owe nothing.
FairSpec == Spec /\ WF_vars(Alpha) /\ WF_vars(Fix) /\ WF_vars(Main)

\* ... and market data keeps coming.
FlowingSpec == FairSpec /\ WF_vars(MdEvent)

-----------------------------------------------------------------------------
TypeOK ==
    /\ RiskTypeOK /\ BrokerTypeOK /\ OmsTypeOK
    /\ clock \in 1 .. MaxTime
    /\ running \in BOOLEAN
    /\ main_pc \in {"loop", "join", "done"}
    /\ alpha_pc \in {"poll", "timer", "close", "engine", "exited"}
    /\ alpha_now \in 0 .. MaxTime
    /\ md_queue \in 0 .. MaxQueue
    /\ fuse_entries \in Nat /\ cooldown_entries \in Nat

\* send_ioc against on_execution_report: whenever the risk manager says a position
\* is open, the order it would force closed is still known to the order manager,
\* whatever reports for older orders are being applied at the time.
FlagBackedByOpenOrder == has_position => open_order \in open_orders

\* send_ioc inserts before it transmits, on_execution_report erases only orders that
\* are finished: whatever the broker still works on has its entry in open_orders_,
\* so that its next report is not dropped.
LiveOrdersKnown == \A l \in live : Found(l.clordid) # {}

\* alpha_thread_fn: an entry order never replaces an order the risk manager is
\* still tracking, although the flag is read long before on_order_sent sets it.
EntryNeverOverwrites ==
    SendingEntry /\ send_pc \in {"insert", "register"} => ~has_position

\* on_fill blows the fuse on another thread than the one that checked it: at most
\* the one entry already past its check is sent afterwards.
OneEntryPastFuse == fuse_entries <= 1

\* The same for a cooldown, for which a now_ns read before the cooldown started is
\* as good as a check passed before it.
OneEntryPerCooldown == cooldown_entries <= 1

PositionDue == has_position /\ clock - position_open_ns >= PositionTimeout

\* on_timer: a position beyond its timeout does not stay so without the force-close
\* callback being invoked, while the engine runs.
TimeoutForcesClose ==
    (PositionDue /\ running)
        ~> (alpha_pc = "close" \/ ~PositionDue \/ ~running \/ order_seq > MaxSeq)

\* main: after SIGINT both threads end, even with no market data to wake them.
ShutdownCompletes == ~running ~> main_pc = "done"

-----------------------------------------------------------------------------
(* Statements of the repository's own text that the code does not meet. *)

\* risk_manager.hpp: "Max 1 open position at a time".
MaxOnePosition == net \in -Lot .. Lot

\* order_manager.hpp: "All execution reports are routed to the supplied
\* RiskManager": consuming a report of a trade books a trade.
FillsReachRisk ==
    [][ (reports # <<>> /\ reports' = Tail(reports) /\ er_pc = "idle"
            /\ main_pc' = main_pc /\ logged_on' = logged_on
            /\ Head(reports).type \in FillTypes)
        => total_trades' = total_trades + 1 ]_vars
=============================================================================
