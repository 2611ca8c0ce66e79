-------------------------- MODULE TradingEngineProofs --------------------------
(***************************************************************************)
(* The safety properties of the engine's threads, for every configuration  *)
(* of the risk manager and every broker: first the gates, then the orders. *)
(***************************************************************************)
EXTENDS TradingEngine, TLAPS

-----------------------------------------------------------------------------
(* The gates: what can still get out after a fuse or a cooldown closed them. *)

\* Once an entry has slipped past a blown fuse, the fuse stays blown and no other
\* entry is under way.
FuseInv ==
    \/ fuse_entries = 0
    \/ fuse_entries = 1 /\ fused /\ ~SendingEntry

\* The clocks of the two threads never run ahead of the time.
TimeInv ==
    /\ clock \in Nat /\ clock < TimeMod
    /\ alpha_now \in Nat /\ alpha_now <= clock
    /\ cooldown_start_ns \in Nat /\ cooldown_start_ns <= clock
    /\ er.now \in Nat /\ er.now <= clock

\* Once an entry has slipped into a cooldown, whatever the alpha thread does next it
\* does with a clock read after the cooldown started, and an entry it is sending has
\* waited for the cooldown's end.
CooldownInv ==
    \/ cooldown_entries = 0
    \/ /\ cooldown_entries = 1
       /\ cooldown_start_ns # 0
       /\ alpha_pc \in {"timer", "close", "engine"} => alpha_now >= cooldown_start_ns
       /\ SendingEntry => alpha_now >= cooldown_start_ns + CooldownDuration

\* FIX-thread steps do not touch the alpha thread's variables, and only ReportGate
\* writes the gates.
LEMMA FixFrame ==
    ASSUME FixReport \/ FixSession
    PROVE  UNCHANGED <<fused, cooldown_start_ns, send_pc, engineVars, history, clock>>
  <1>1. CASE FixSession
    BY <1>1 DEF FixSession, onLogon, onLogout, riskVars
  <1>2. CASE FixReport
    BY <1>2 DEF FixReport, ReportIgnored, ReportFill, ReportReject, ReportErase,
                TakeReport, on_reject, riskVars
  <1> QED
    BY <1>1, <1>2

\* Main and the environment touch neither the gates nor the alpha thread.
LEMMA EnvFrame ==
    ASSUME Main \/ on_signal \/ BrokerAnswers \/ MdEvent
    PROVE  UNCHANGED <<fused, cooldown_start_ns, send_pc, alpha_pc, alpha_now, er, history,
                       clock>>
  BY DEF Main, MainStop, MainJoin, on_signal, BrokerAnswers, MdEvent, riskVars, omsVars,
         engineVars, history

\* send_ioc and what precedes it leave the gates alone.
LEMMA AlphaFrame ==
    ASSUME Alpha
    PROVE  UNCHANGED <<fused, cooldown_start_ns, er, clock>>
  BY DEF Alpha, AlphaPop, AlphaExit, AlphaTimer, AlphaClose, AlphaNoEntry, AlphaEntry,
         AlphaSend, AlphaTransmit, SendInsert, SendRegister, SendUnwind, SendTransmit,
         on_order_sent, on_reject, cancel_order, send_ioc, riskVars, omsVars

\* on_fill on the FIX thread against check_signal on the alpha thread: at most one
\* entry is sent after the fuse has blown.
THEOREM FuseHolds == Spec => []OneEntryPastFuse
  <1>1. Init => FuseInv
    BY DEF Init, FuseInv
  <1>2. FuseInv /\ [Next]_vars => FuseInv'
    <2> SUFFICES ASSUME FuseInv, [Next]_vars PROVE FuseInv'
      OBVIOUS
    <2>1. ASSUME UNCHANGED <<fused, send_pc, alpha_pc, fuse_entries>> PROVE FuseInv'
      BY <2>1 DEF FuseInv, SendingEntry
    <2>3. CASE AlphaPop \/ AlphaExit \/ AlphaNoEntry \/ AlphaClose \/ AlphaTimer
      <3>1. UNCHANGED <<fused, fuse_entries>>
        BY <2>3, AlphaFrame DEF Alpha, AlphaPop, AlphaExit, AlphaNoEntry, AlphaClose,
                 AlphaTimer, history
      <3>2. send_pc' = "out" \/ alpha_pc' # "poll"
        BY <2>3 DEF AlphaPop, AlphaExit, AlphaNoEntry, AlphaClose, AlphaTimer, omsVars
      <3> QED
        BY <3>1, <3>2 DEF FuseInv, SendingEntry
    <2>4. CASE AlphaEntry
      BY <2>4, AlphaFrame DEF Alpha, AlphaEntry, check_signal, FuseInv, history
    <2>5. CASE AlphaSend
      <3>1. UNCHANGED <<fused, fuse_entries, alpha_pc>> /\ send_pc # "out"
        BY <2>5, AlphaFrame DEF Alpha, AlphaSend, SendInsert, SendRegister, SendUnwind,
                 engineVars, history
      <3> QED
        BY <3>1 DEF FuseInv, SendingEntry
    <2>6. CASE AlphaTransmit
      <3>1. /\ UNCHANGED <<fused, alpha_pc>> /\ send_pc # "out"
            /\ send_pc' = "out" \/ live' = live
            /\ fuse_entries' = IF SendingEntry /\ live' # live /\ fused
                               THEN fuse_entries + 1 ELSE fuse_entries
        BY <2>6, AlphaFrame DEF Alpha, AlphaTransmit, SendTransmit, engineVars, brokerVars
      <3> QED
        BY <3>1 DEF FuseInv, SendingEntry
    <2>7. CASE FixGate
      <3>1. UNCHANGED <<send_pc, alpha_pc, fuse_entries>>
        BY <2>7 DEF FixGate, ReportGate, engineVars
      <3>2. fused => fused'
        BY <2>7, Zenon DEF FixGate, ReportGate, FillGate, AbortGate, FuseGate
      <3> QED
        BY <3>1, <3>2 DEF FuseInv, SendingEntry
    <2>8. CASE FixReport \/ FixSession
      BY <2>8, <2>1, FixFrame DEF engineVars, history
    <2>9. CASE Main \/ on_signal \/ BrokerAnswers \/ MdEvent
      BY <2>9, <2>1, EnvFrame DEF history
    <2>10. CASE Tick \/ UNCHANGED vars
      BY <2>10, <2>1 DEF Tick, vars, riskVars, omsVars, engineVars, history
    <2> QED
      BY <2>3, <2>4, <2>5, <2>6, <2>7, <2>8, <2>9, <2>10 DEF Next, Alpha, Fix
  <1>3. FuseInv => OneEntryPastFuse
    BY DEF FuseInv, OneEntryPastFuse
  <1> QED
    BY <1>1, <1>2, <1>3, PTL DEF Spec

\* in_cooldown when the clock is not behind the cooldown's start: no wrap-around.
LEMMA CooldownElapsed ==
    ASSUME NEW now \in Nat, cooldown_start_ns \in Nat, cooldown_start_ns <= now,
           cooldown_start_ns # 0
    PROVE  in_cooldown(now) <=> now < cooldown_start_ns + CooldownDuration
  BY RiskAssumption DEF in_cooldown, Sub64

\* The clocks of both threads stay in the past.
THEOREM TimeCorrect == Spec => []TimeInv
  <1>1. Init => TimeInv
    BY EngineAssumption, RiskAssumption DEF Init, RiskInit, OmsInit, NoReport, TimeInv
  <1>2. TimeInv /\ [Next]_vars => TimeInv'
    <2> SUFFICES ASSUME TimeInv, [Next]_vars PROVE TimeInv'
      OBVIOUS
    <2>1. ASSUME UNCHANGED <<clock, alpha_now, cooldown_start_ns, er>> PROVE TimeInv'
      BY <2>1 DEF TimeInv
    <2>2. CASE AlphaPop
      BY <2>2, AlphaFrame DEF Alpha, AlphaPop, TimeInv
    <2>3. CASE AlphaExit \/ AlphaTimer \/ AlphaClose \/ AlphaNoEntry \/ AlphaEntry
               \/ AlphaSend \/ AlphaTransmit
      BY <2>3, <2>1, AlphaFrame DEF Alpha, AlphaExit, AlphaTimer, AlphaClose, AlphaNoEntry,
               AlphaEntry, AlphaSend, AlphaTransmit, engineVars
    <2>4. CASE FixGate
      <3>1. UNCHANGED <<clock, alpha_now, er>>
        BY <2>4 DEF FixGate, ReportGate, engineVars
      <3>2. cooldown_start_ns' \in {cooldown_start_ns, er.now}
        BY <2>4 DEF FixGate, ReportGate, FillGate, AbortGate, SlipGate
      <3> QED
        BY <3>1, <3>2 DEF TimeInv
    <2>5. CASE FixReport
      <3>1. UNCHANGED <<clock, alpha_now, cooldown_start_ns>>
        BY <2>5, FixFrame DEF engineVars
      <3>2. er' = er \/ er'.now \in {0, clock}
        BY <2>5 DEF FixReport, ReportIgnored, ReportFill, ReportReject, ReportErase, NoReport
      <3> QED
        BY <3>1, <3>2 DEF TimeInv
    <2>6. CASE FixSession
      <3>1. er' = er
        BY <2>6 DEF FixSession, onLogon, onLogout
      <3> QED
        BY <3>1, <2>6, <2>1, FixFrame DEF engineVars
    <2>7. CASE Main \/ on_signal \/ BrokerAnswers \/ MdEvent
      BY <2>7, <2>1, EnvFrame
    <2>8. CASE Tick
      BY <2>8, EngineAssumption, RiskAssumption DEF Tick, TimeInv, riskVars, omsVars, engineVars
    <2>9. CASE UNCHANGED vars
      BY <2>9, <2>1 DEF vars, riskVars, omsVars, engineVars
    <2> QED
      BY <2>2, <2>3, <2>4, <2>5, <2>6, <2>7, <2>8, <2>9 DEF Next, Alpha, Fix
  <1> QED
    BY <1>1, <1>2, PTL DEF Spec

\* A cooldown started on the FIX thread lets at most one entry of the alpha thread
\* through: one whose check, or whose clock reading, is older than the cooldown.
THEOREM CooldownHolds == Spec => []OneEntryPerCooldown
  <1>1. Init => CooldownInv
    BY DEF Init, CooldownInv
  <1>2. TimeInv /\ CooldownInv /\ [Next]_vars => CooldownInv'
    <2> SUFFICES ASSUME TimeInv, CooldownInv, [Next]_vars PROVE CooldownInv'
      OBVIOUS
    <2>1. ASSUME UNCHANGED <<cooldown_start_ns, send_pc, alpha_pc, alpha_now, cooldown_entries>>
          PROVE  CooldownInv'
      BY <2>1 DEF CooldownInv, SendingEntry
    <2>2. CASE AlphaPop
      <3>1. /\ UNCHANGED <<cooldown_start_ns, cooldown_entries>>
            /\ alpha_now' = clock /\ alpha_pc' = "timer"
        BY <2>2, AlphaFrame DEF Alpha, AlphaPop, history
      <3> QED
        BY <3>1 DEF CooldownInv, SendingEntry, TimeInv
    <2>3. CASE AlphaExit \/ AlphaNoEntry \/ AlphaTimer \/ AlphaClose
      <3>1. UNCHANGED <<cooldown_start_ns, cooldown_entries, alpha_now>>
        BY <2>3, AlphaFrame DEF Alpha, AlphaExit, AlphaNoEntry, AlphaTimer, AlphaClose, history
      <3>2. /\ send_pc' = "out" \/ alpha_pc' # "poll"
            /\ alpha_pc \in {"timer", "close", "engine"} \/ alpha_pc' = "exited"
        BY <2>3 DEF AlphaExit, AlphaNoEntry, AlphaTimer, AlphaClose, omsVars
      <3> QED
        BY <3>1, <3>2 DEF CooldownInv, SendingEntry
    <2>4. CASE AlphaEntry
      <3>1. /\ UNCHANGED <<cooldown_start_ns, cooldown_entries, alpha_now>>
            /\ alpha_pc = "engine" /\ alpha_pc' = "poll" /\ ~in_cooldown(alpha_now)
        BY <2>4, AlphaFrame DEF Alpha, AlphaEntry, check_signal, history
      <3>2. cooldown_entries = 1 => alpha_now >= cooldown_start_ns + CooldownDuration
        BY <3>1, CooldownElapsed, RiskAssumption DEF CooldownInv, TimeInv
      <3> QED
        BY <3>1, <3>2 DEF CooldownInv, SendingEntry
    <2>5. CASE AlphaSend
      <3>1. /\ UNCHANGED <<cooldown_start_ns, cooldown_entries, alpha_now, alpha_pc>>
            /\ send_pc # "out"
        BY <2>5, AlphaFrame DEF Alpha, AlphaSend, SendInsert, SendRegister, SendUnwind,
                 engineVars, history
      <3> QED
        BY <3>1 DEF CooldownInv, SendingEntry
    <2>6. CASE AlphaTransmit
      <3>1. /\ UNCHANGED <<cooldown_start_ns, alpha_now, alpha_pc>> /\ send_pc # "out"
            /\ send_pc' = "out" \/ live' = live
            /\ cooldown_entries' = IF SendingEntry /\ live' # live /\ in_cooldown(clock)
                                   THEN cooldown_entries + 1 ELSE cooldown_entries
        BY <2>6, AlphaFrame DEF Alpha, AlphaTransmit, SendTransmit, engineVars, brokerVars
      <3>2. cooldown_entries = 1 /\ SendingEntry => ~in_cooldown(clock)
        BY CooldownElapsed, RiskAssumption DEF CooldownInv, TimeInv
      <3>3. in_cooldown(clock) => cooldown_start_ns # 0
        BY DEF in_cooldown
      <3>4. CASE SendingEntry /\ live' # live /\ in_cooldown(clock)
        BY <3>1, <3>2, <3>3, <3>4 DEF CooldownInv, SendingEntry
      <3>5. CASE ~(SendingEntry /\ live' # live /\ in_cooldown(clock))
        BY <3>1, <3>5 DEF CooldownInv, SendingEntry
      <3> QED
        BY <3>4, <3>5
    <2>7. CASE FixGate
      <3>1. /\ UNCHANGED <<send_pc, alpha_pc, alpha_now>>
            /\ \/ UNCHANGED <<cooldown_start_ns, cooldown_entries>>
               \/ cooldown_entries' = 0
        BY <2>7 DEF FixGate, ReportGate, engineVars
      <3> QED
        BY <3>1, <2>1 DEF CooldownInv
    <2>8. CASE FixReport \/ FixSession
      BY <2>8, <2>1, FixFrame DEF engineVars, history
    <2>9. CASE Main \/ on_signal \/ BrokerAnswers \/ MdEvent
      BY <2>9, <2>1, EnvFrame DEF history
    <2>10. CASE Tick \/ UNCHANGED vars
      BY <2>10, <2>1 DEF Tick, vars, riskVars, omsVars, engineVars, history
    <2> QED
      BY <2>2, <2>3, <2>4, <2>5, <2>6, <2>7, <2>8, <2>9, <2>10 DEF Next, Alpha, Fix
  <1>3. CooldownInv => OneEntryPerCooldown
    BY DEF CooldownInv, OneEntryPerCooldown
  <1> QED
    BY <1>1, <1>2, <1>3, TimeCorrect, PTL DEF Spec

-----------------------------------------------------------------------------
(* The order the risk manager tracks. *)

\* check_signal to on_order_sent: between the two only the FIX thread runs, and it can
\* clear the flag but not set it.
THEOREM EntryIsFirst == Spec => []EntryNeverOverwrites
  <1>1. Init => EntryNeverOverwrites
    BY DEF Init, OmsInit, EntryNeverOverwrites, SendingEntry
  <1>2. EntryNeverOverwrites /\ [Next]_vars => EntryNeverOverwrites'
    <2> SUFFICES ASSUME EntryNeverOverwrites, [Next]_vars PROVE EntryNeverOverwrites'
      OBVIOUS
    <2>1. ASSUME UNCHANGED <<send_pc, alpha_pc>>, has_position' => has_position
          PROVE  EntryNeverOverwrites'
      BY <2>1 DEF EntryNeverOverwrites, SendingEntry
    <2>2. CASE AlphaPop \/ AlphaExit \/ AlphaNoEntry \/ AlphaClose \/ AlphaTimer
      <3>1. send_pc' = "out" \/ alpha_pc' # "poll"
        BY <2>2 DEF AlphaPop, AlphaExit, AlphaNoEntry, AlphaClose, AlphaTimer, omsVars
      <3> QED
        BY <3>1 DEF EntryNeverOverwrites, SendingEntry
    <2>3. CASE AlphaEntry
      <3>1. ~has_position /\ has_position' = has_position
        BY <2>3 DEF AlphaEntry, check_signal, send_ioc, riskVars
      <3> QED
        BY <3>1 DEF EntryNeverOverwrites
    <2>4. CASE AlphaSend
      <3>1. alpha_pc' = alpha_pc
        BY <2>4 DEF AlphaSend, engineVars
      <3>2. \/ send_pc = "insert" /\ has_position' = has_position
            \/ send_pc' \in {"transmit", "out"}
        BY <2>4 DEF AlphaSend, SendInsert, SendRegister, SendUnwind, riskVars
      <3> QED
        BY <3>1, <3>2 DEF EntryNeverOverwrites, SendingEntry
    <2>5. CASE AlphaTransmit
      <3>1. send_pc' \in {"out", "unwind"}
        BY <2>5 DEF AlphaTransmit, SendTransmit
      <3> QED
        BY <3>1 DEF EntryNeverOverwrites
    <2>6. CASE FixGate
      BY <2>6, <2>1 DEF FixGate, ReportGate, engineVars
    <2>7. CASE FixReport \/ FixSession
      <3>1. UNCHANGED <<send_pc, alpha_pc>>
        BY <2>7, FixFrame DEF engineVars
      <3>2. has_position' => has_position
        BY <2>7 DEF FixReport, ReportIgnored, ReportFill, ReportReject, ReportErase, FillBook,
                    on_reject, FixSession, onLogon, onLogout, riskVars
      <3> QED
        BY <3>1, <3>2, <2>1
    <2>8. CASE Main \/ on_signal \/ BrokerAnswers \/ MdEvent
      <3>1. has_position' = has_position
        BY <2>8 DEF Main, MainStop, MainJoin, on_signal, BrokerAnswers, MdEvent, riskVars
      <3> QED
        BY <3>1, <2>8, <2>1, EnvFrame
    <2>9. CASE Tick \/ UNCHANGED vars
      BY <2>9, <2>1 DEF Tick, vars, riskVars, omsVars, engineVars
    <2> QED
      BY <2>2, <2>3, <2>4, <2>5, <2>6, <2>7, <2>8, <2>9 DEF Next, Alpha, Fix
  <1> QED
    BY <1>1, <1>2, PTL DEF Spec

-----------------------------------------------------------------------------
(* Types. *)

\* slippage_ticks takes the absolute difference: it is never negative.
LEMMA SlipIsNat ==
    ASSUME NEW l1 \in Price, NEW px \in Price
    PROVE  slippage_ticks(l1, px) \in Nat
  BY RiskAssumption DEF slippage_ticks

\* The part of TypeOK that is about the engine itself.
EngineTypeOK ==
    /\ clock \in 1 .. MaxTime
    /\ running \in BOOLEAN
    /\ main_pc \in {"loop", "join", "done"}
    /\ alpha_pc \in {"poll", "timer", "close", "engine", "exited"}
    /\ alpha_now \in 0 .. MaxTime
    /\ md_queue \in 0 .. MaxQueue
    /\ fuse_entries \in Nat /\ cooldown_entries \in Nat

\* Components a step does not touch keep their types.
LEMMA TypeFrame ==
    ASSUME TypeOK
    PROVE  /\ UNCHANGED riskVars => RiskTypeOK'
           /\ UNCHANGED brokerVars => BrokerTypeOK'
           /\ UNCHANGED omsVars => OmsTypeOK'
           /\ UNCHANGED <<clock, engineVars, history>> => EngineTypeOK'
           /\ clock \in Time /\ alpha_now \in Time
  <1>1. UNCHANGED riskVars => RiskTypeOK'
    BY DEF TypeOK, RiskTypeOK, riskVars
  <1>2. UNCHANGED brokerVars => BrokerTypeOK'
    BY DEF TypeOK, BrokerTypeOK, brokerVars
  <1>3. UNCHANGED omsVars => OmsTypeOK'
    BY DEF TypeOK, OmsTypeOK, omsVars
  <1>4. UNCHANGED <<clock, engineVars, history>> => EngineTypeOK'
    BY DEF TypeOK, EngineTypeOK, engineVars, history
  <1>5. clock \in Time /\ alpha_now \in Time
    BY EngineAssumption, RiskAssumption DEF TypeOK, Time
  <1> QED
    BY <1>1, <1>2, <1>3, <1>4, <1>5

\* send_ioc builds an Order from what its callers pass.
LEMMA SendTypes ==
    ASSUME TypeOK, NEW side \in Side, NEW qty \in Nat, NEW l1 \in Price,
           send_ioc(side, qty, l1, alpha_now)
    PROVE  OmsTypeOK'
  <1>1. [clordid |-> order_seq, side |-> side, qty |-> qty, signal_l1 |-> l1] \in Order
    BY DEF Order, TypeOK, OmsTypeOK
  <1>2. draft' \in Order /\ draft_ts' \in Time
    BY <1>1, TypeFrame DEF send_ioc, TypeOK, OmsTypeOK
  <1>3. order_seq' \in Nat \ {0} /\ send_pc' \in {"out", "insert", "register", "transmit", "unwind"}
    BY DEF send_ioc, TypeOK, OmsTypeOK
  <1> QED
    BY <1>2, <1>3 DEF send_ioc, TypeOK, OmsTypeOK

\* Steps of the alpha thread are well typed.
LEMMA AlphaTypes == TypeOK /\ Alpha => TypeOK'
  <1> SUFFICES ASSUME TypeOK, Alpha PROVE TypeOK'
    OBVIOUS
  <1>1. CASE AlphaPop \/ AlphaExit \/ AlphaNoEntry
    <2>1. UNCHANGED <<riskVars, brokerVars, omsVars>>
      BY <1>1 DEF AlphaPop, AlphaExit, AlphaNoEntry
    <2>2. EngineTypeOK'
      BY <1>1, EngineAssumption DEF AlphaPop, AlphaExit, AlphaNoEntry, TypeOK, EngineTypeOK, history
    <2> QED
      BY <2>1, <2>2, TypeFrame DEF TypeOK, EngineTypeOK
  <1>2. CASE AlphaTimer
    <2>1. UNCHANGED <<riskVars, brokerVars>>
      BY <1>2 DEF AlphaTimer, cancel_order
    <2>2. OmsTypeOK'
      BY <1>2 DEF AlphaTimer, cancel_order, TypeOK, OmsTypeOK, omsVars
    <2>3. EngineTypeOK'
      BY <1>2 DEF AlphaTimer, TypeOK, EngineTypeOK, history
    <2> QED
      BY <2>1, <2>2, <2>3, TypeFrame DEF TypeOK, EngineTypeOK
  <1>3. CASE AlphaClose \/ AlphaEntry
    <2>1. PICK side \in Side, qty \in Nat, l1 \in Price : send_ioc(side, qty, l1, alpha_now)
      <3>1. Opposite(open_order.side) \in Side /\ open_order.qty \in Nat
        BY DEF Opposite, Side, TypeOK, RiskTypeOK, Order
      <3> QED
        BY <1>3, <3>1, EngineAssumption DEF AlphaClose, AlphaEntry
    <2>2. UNCHANGED <<riskVars, brokerVars>> /\ OmsTypeOK'
      BY <2>1, SendTypes DEF send_ioc
    <2>3. EngineTypeOK'
      BY <1>3 DEF AlphaClose, AlphaEntry, TypeOK, EngineTypeOK, history
    <2> QED
      BY <2>2, <2>3, TypeFrame DEF TypeOK, EngineTypeOK
  <1>4. CASE AlphaSend
    <2>1. UNCHANGED brokerVars /\ EngineTypeOK'
      BY <1>4, TypeFrame DEF AlphaSend, SendInsert, SendRegister, SendUnwind
    <2>2. OmsTypeOK'
      BY <1>4 DEF AlphaSend, SendInsert, SendRegister, SendUnwind, TypeOK, OmsTypeOK
    <2>3. RiskTypeOK'
      <3>1. CASE SendInsert
        BY <3>1, TypeFrame DEF SendInsert
      <3>2. CASE SendRegister
        BY <3>2 DEF SendRegister, on_order_sent, TypeOK, RiskTypeOK, OmsTypeOK
      <3>3. CASE SendUnwind
        BY <3>3, Zenon DEF SendUnwind, on_reject, TypeOK, RiskTypeOK
      <3> QED
        BY <1>4, <3>1, <3>2, <3>3 DEF AlphaSend
    <2> QED
      BY <2>1, <2>2, <2>3, TypeFrame DEF TypeOK, EngineTypeOK
  <1>5. CASE AlphaTransmit
    <2>1. UNCHANGED riskVars /\ OmsTypeOK'
      BY <1>5 DEF AlphaTransmit, SendTransmit, TypeOK, OmsTypeOK
    <2>2. BrokerTypeOK'
      <3>1. CASE UNCHANGED brokerVars
        BY <3>1, TypeFrame
      <3>2. CASE Accept(draft)
        <4>1. [clordid |-> draft.clordid, side |-> draft.side, qty |-> draft.qty,
               left |-> draft.qty] \in LiveOrder
          BY DEF TypeOK, OmsTypeOK, Order, Side, LiveOrder
        <4> QED
          BY <3>2, <4>1 DEF Accept, TypeOK, BrokerTypeOK
      <3> QED
        BY <1>5, <3>1, <3>2 DEF AlphaTransmit, SendTransmit
    <2>3. EngineTypeOK'
      BY <1>5 DEF AlphaTransmit, TypeOK, EngineTypeOK, engineVars
    <2> QED
      BY <2>1, <2>2, <2>3, TypeFrame DEF TypeOK, EngineTypeOK
  <1> QED
    BY <1>1, <1>2, <1>3, <1>4, <1>5 DEF Alpha

\* The cleared locals of on_execution_report are well typed.
LEMMA NoReportTyped == NoReport \in ErLocals
  <1>1. 0 \in Time
    BY RiskAssumption DEF Time
  <1> QED
    BY <1>1 DEF NoReport, ErLocals

\* A disconnect leaves the wire well typed.
LEMMA WireTypes == TypeOK /\ DropWire => BrokerTypeOK'
  BY DEF DropWire, TypeOK, BrokerTypeOK

\* Steps of the FIX thread are well typed.
LEMMA FixTypes == TypeOK /\ (Fix \/ FixSession) => TypeOK'
  <1> SUFFICES ASSUME TypeOK, Fix \/ FixSession PROVE TypeOK'
    OBVIOUS
  <1>1. CASE FixSession
    <2>1. UNCHANGED riskVars /\ EngineTypeOK'
      BY <1>1, TypeFrame DEF FixSession, onLogon, onLogout
    <2>2. logged_on' \in BOOLEAN
      BY <1>1, Zenon DEF FixSession, onLogon, onLogout
    <2>3. OmsTypeOK'
      BY <1>1, <2>2 DEF FixSession, onLogon, onLogout, TypeOK, OmsTypeOK
    <2>4. BrokerTypeOK'
      BY <1>1, TypeFrame, WireTypes DEF FixSession, onLogon, onLogout
    <2> QED
      BY <2>1, <2>3, <2>4, TypeFrame DEF TypeOK, EngineTypeOK
  <1>2. CASE ReportGate /\ FixGate
    <2>1. UNCHANGED brokerVars /\ OmsTypeOK'
      BY <1>2 DEF ReportGate, TypeOK, OmsTypeOK
    <2>2. EngineTypeOK'
      BY <1>2 DEF FixGate, TypeOK, EngineTypeOK, engineVars
    <2>3. er.slip \in Nat /\ er.now \in Time
      BY DEF TypeOK, OmsTypeOK, ErLocals
    <2>4. fused' \in BOOLEAN
      BY <1>2, Zenon DEF ReportGate, FillGate, AbortGate, FuseGate, TypeOK, RiskTypeOK
    <2>5. consec_slip_count' \in Nat /\ cooldown_start_ns' \in Time
      BY <1>2, <2>3 DEF ReportGate, FillGate, AbortGate, SlipGate, NextSlipCount, TypeOK, RiskTypeOK
    <2>6. RiskTypeOK'
      BY <1>2, <2>4, <2>5 DEF ReportGate, TypeOK, RiskTypeOK
    <2> QED
      BY <2>1, <2>2, <2>6, TypeFrame DEF TypeOK, EngineTypeOK
  <1>3. CASE ReportErase /\ FixReport
    <2>1. UNCHANGED <<riskVars, brokerVars>> /\ EngineTypeOK'
      BY <1>3, TypeFrame DEF ReportErase, FixReport
    <2>2. NoReport \in ErLocals
      BY NoReportTyped
    <2>3. OmsTypeOK'
      BY <1>3, <2>2 DEF ReportErase, TypeOK, OmsTypeOK
    <2> QED
      BY <2>1, <2>3, TypeFrame DEF TypeOK, EngineTypeOK
  <1>4. CASE TakeReport /\ FixReport /\ ~ReportErase
    <2>1. Head(reports) \in Report /\ BrokerTypeOK'
      BY <1>4 DEF TakeReport, TypeOK, BrokerTypeOK
    <2>2. EngineTypeOK'
      BY <1>4, TypeFrame DEF FixReport
    <2>3. CASE ReportIgnored
      <3>1. UNCHANGED <<riskVars, omsVars>>
        BY <2>3 DEF ReportIgnored, TakeReport, omsVars
      <3> QED
        BY <3>1, <2>1, <2>2, TypeFrame DEF TypeOK, EngineTypeOK
    <2>4. CASE ReportReject
      <3>1. er' \in ErLocals
        <4>1. /\ er' = [NoReport EXCEPT !.clordid = Head(reports).clordid]
              /\ Head(reports).clordid \in Nat
          BY <2>4, <2>1 DEF ReportReject, Report
        <4>2. NoReport \in ErLocals
          BY NoReportTyped
        <4> QED
          BY <4>1, <4>2 DEF ErLocals
      <3>2. OmsTypeOK'
        BY <3>1, <2>4 DEF ReportReject, TakeReport, TypeOK, OmsTypeOK
      <3>3. RiskTypeOK'
        BY <2>4, Zenon DEF ReportReject, on_reject, TypeOK, RiskTypeOK
      <3> QED
        BY <3>2, <3>3, <2>1, <2>2 DEF TypeOK, EngineTypeOK
    <2>5. CASE ReportFill
      <3>1. PICK o \in open_orders :
              /\ FillBook(slippage_ticks(o.signal_l1, Head(reports).px))
              /\ er' = [clordid |-> o.clordid,
                        slip |-> slippage_ticks(o.signal_l1, Head(reports).px),
                        now |-> clock, done |-> Head(reports).type = "FILL"]
        BY <2>5 DEF ReportFill, Found
      <3> DEFINE slip == slippage_ticks(o.signal_l1, Head(reports).px)
      <3>2. o \in Order
        BY DEF TypeOK, OmsTypeOK
      <3>3. slip \in Nat
        BY <3>2, <2>1, SlipIsNat, OmsAssumption DEF Order, Report
      <3>4. er' \in ErLocals
        BY <3>1, <3>2, <3>3, TypeFrame DEF Order, ErLocals
      <3>5. OmsTypeOK'
        BY <3>4, <2>5 DEF ReportFill, TakeReport, TypeOK, OmsTypeOK
      <3>6. daily_pnl' \in Int /\ daily_pnl' <= 0 /\ total_trades' \in Nat
        <4>1. slip * TickSize \in Nat
          BY <3>3, RiskAssumption
        <4> QED
          BY <4>1, <3>1 DEF FillBook, TypeOK, RiskTypeOK
      <3>7. has_position' \in BOOLEAN
        BY <3>1, Zenon DEF FillBook
      <3>8. RiskTypeOK'
        BY <3>1, <3>6, <3>7, <2>5 DEF ReportFill, FillBook, TypeOK, RiskTypeOK
      <3> QED
        BY <3>5, <3>8, <2>1, <2>2 DEF TypeOK, EngineTypeOK
    <2> QED
      BY <1>4, <2>3, <2>4, <2>5 DEF FixReport
  <1> QED
    BY <1>1, <1>2, <1>3, <1>4 DEF Fix, FixReport, FixGate, ReportIgnored, ReportFill, ReportReject

\* What the broker does keeps the wire well typed.
LEMMA AnswerTypes ==
    ASSUME TypeOK, NEW l \in live, NEW type, NEW n \in 0 .. Lot, NEW px \in FillPrice,
           Answer(l, type, n, px, logged_on)
    PROVE  BrokerTypeOK'
  <1>1. l \in LiveOrder /\ l.left \in Nat
    BY DEF TypeOK, BrokerTypeOK, LiveOrder
  <1>2. live' \subseteq LiveOrder
    <2>1. n < l.left => [l EXCEPT !.left = @ - n] \in LiveOrder
      BY <1>1, EngineAssumption DEF LiveOrder
    <2> QED
      BY <2>1 DEF Answer, TypeOK, BrokerTypeOK
  <1>3. [clordid |-> l.clordid, type |-> type, px |-> px] \in Report
    BY <1>1, BrokerAssumption DEF Answer, LiveOrder, Report
  <1>4. reports' \in Seq(Report)
    BY <1>3 DEF Answer, TypeOK, BrokerTypeOK
  <1>5. net' \in Int
    BY EngineAssumption DEF Answer, TypeOK, BrokerTypeOK
  <1> QED
    BY <1>2, <1>4, <1>5 DEF BrokerTypeOK

\* Every reachable state of the engine, its order manager, its risk manager and the
\* session it trades through is well typed.
THEOREM TypeCorrect == Spec => []TypeOK
  <1>1. Init => TypeOK
    <2> SUFFICES ASSUME Init PROVE TypeOK
      OBVIOUS
    <2>1. NoOrder \in Order /\ 0 \in Time /\ NoReport \in ErLocals /\ 0 \in Nat /\ 0 \in Int /\ 0 <= 0
      BY RiskAssumption DEF NoOrder, NoReport, Order, ErLocals, Side, Time
    <2>2. RiskTypeOK
      BY <2>1, Zenon DEF Init, RiskInit, RiskTypeOK
    <2>3. BrokerTypeOK
      BY DEF Init, BrokerInit, BrokerTypeOK
    <2>4. OmsTypeOK
      <3>1. logged_on \in BOOLEAN
        BY Zenon DEF Init, OmsInit
      <3> QED
        BY <2>1, <3>1 DEF Init, OmsInit, OmsTypeOK
    <2>5. EngineTypeOK
      BY EngineAssumption DEF Init, EngineTypeOK
    <2> QED
      BY <2>2, <2>3, <2>4, <2>5 DEF TypeOK, EngineTypeOK
  <1>2. TypeOK /\ [Next]_vars => TypeOK'
    <2> SUFFICES ASSUME TypeOK, [Next]_vars PROVE TypeOK'
      OBVIOUS
    <2>1. CASE Alpha
      BY <2>1, AlphaTypes
    <2>2. CASE Fix \/ FixSession
      BY <2>2, FixTypes
    <2>3. CASE MainStop
      <3>1. UNCHANGED riskVars /\ EngineTypeOK'
        BY <2>3 DEF MainStop, TypeOK, EngineTypeOK, history
      <3>2. logged_on' \in BOOLEAN
        BY <2>3, Zenon DEF MainStop
      <3>3. OmsTypeOK'
        BY <2>3, <3>2 DEF MainStop, TypeOK, OmsTypeOK
      <3>4. BrokerTypeOK'
        BY <2>3, TypeFrame, WireTypes DEF MainStop
      <3> QED
        BY <3>1, <3>3, <3>4, TypeFrame DEF TypeOK, EngineTypeOK
    <2>4. CASE MainJoin \/ on_signal \/ MdEvent \/ Tick
      <3>1. UNCHANGED <<riskVars, brokerVars, omsVars>>
        BY <2>4 DEF MainJoin, on_signal, MdEvent, Tick
      <3>2. running' \in BOOLEAN
        BY <2>4, Zenon DEF MainJoin, on_signal, MdEvent, Tick, TypeOK, engineVars
      <3>3. EngineTypeOK'
        BY <2>4, <3>2, EngineAssumption DEF MainJoin, on_signal, MdEvent, Tick, TypeOK,
                 EngineTypeOK, engineVars, history
      <3> QED
        BY <3>1, <3>3, TypeFrame DEF TypeOK, EngineTypeOK
    <2>5. CASE BrokerAnswers
      <3>1. UNCHANGED <<riskVars, omsVars>> /\ EngineTypeOK'
        BY <2>5, TypeFrame DEF BrokerAnswers
      <3>2. BrokerTypeOK'
        BY <2>5, AnswerTypes DEF BrokerAnswers
      <3> QED
        BY <3>1, <3>2, TypeFrame DEF TypeOK, EngineTypeOK
    <2>6. CASE UNCHANGED vars
      BY <2>6, TypeFrame DEF vars, TypeOK, EngineTypeOK
    <2> QED
      BY <2>1, <2>2, <2>3, <2>4, <2>5, <2>6 DEF Next, Main
  <1> QED
    BY <1>1, <1>2, PTL DEF Spec

-----------------------------------------------------------------------------
(* The orders: what the risk manager tracks and what the broker works on both *)
(* stay known to the order manager, although two threads insert into and      *)
(* erase from open_orders_ without a lock.                                    *)

Issued  == 0 .. order_seq - 1
Pending == {reports[i] : i \in 1 .. Len(reports)}

\* Report types on which on_execution_report erases the order.
FinalTypes == {"FILL", "REJECTED", "EXPIRED"}

\* The report in hand ends its order.
Finishing == er_pc = "erase" \/ (er_pc = "gate" /\ er.done)

\* Every ClOrdID in use was issued.
IdInv ==
    /\ draft.clordid \in Issued /\ er.clordid \in Issued
    /\ \A l \in live : l.clordid \in Issued
    /\ \A r \in Pending : r.clordid \in Issued

\* Nobody has heard of an order that send_ioc has not transmitted yet.
UnsentInv ==
    send_pc # "out" =>
        /\ \A l \in live : l.clordid # draft.clordid
        /\ \A r \in Pending : r.clordid # draft.clordid
        /\ er_pc # "idle" => er.clordid # draft.clordid

\* The tracked order is never the one whose report is being applied, and the draft is
\* in the map once inserted.
TrackInv ==
    /\ send_pc \in {"register", "transmit", "unwind"} => draft \in open_orders
    /\ has_position => /\ open_order \in open_orders
                       /\ er_pc # "idle" => er.clordid # open_order.clordid

\* An order the broker works on is known, it works on it once, and no report that
\* ends it is on the wire or in hand.
LiveInv ==
    /\ \A l \in live : \E o \in open_orders : o.clordid = l.clordid
    /\ \A l, m \in live : l.clordid = m.clordid => l = m
    /\ \A r \in Pending : r.type \in FinalTypes => \A l \in live : l.clordid # r.clordid
    /\ Finishing => \A l \in live : l.clordid # er.clordid

OrderInv == IdInv /\ UnsentInv /\ TrackInv /\ LiveInv

-----------------------------------------------------------------------------
\* Taking a report off the wire.
LEMMA TakePending ==
    ASSUME TypeOK, TakeReport
    PROVE  Pending' \subseteq Pending /\ Head(reports) \in Pending
  <1>1. reports \in Seq(Report) /\ reports # <<>> /\ reports' = Tail(reports)
    BY DEF TypeOK, BrokerTypeOK, TakeReport
  <1>2. Len(reports) >= 1 /\ Len(reports) \in Nat
    BY <1>1
  <1>3. Head(reports) \in Pending
    BY <1>1, <1>2 DEF Pending
  <1>4. ASSUME NEW i \in 1 .. Len(reports') PROVE reports'[i] \in Pending
    <2>1. i + 1 \in 1 .. Len(reports) /\ reports'[i] = reports[i + 1]
      BY <1>1, <1>2
    <2> QED
      BY <2>1 DEF Pending
  <1> QED
    BY <1>3, <1>4 DEF Pending

\* Putting one on it.
LEMMA AppendPending ==
    ASSUME TypeOK, NEW r, r \in Report, reports' = Append(reports, r)
    PROVE  Pending' \subseteq Pending \cup {r}
  <1>1. reports \in Seq(Report)
    BY DEF TypeOK, BrokerTypeOK
  <1>2. ASSUME NEW i \in 1 .. Len(reports') PROVE reports'[i] \in Pending \cup {r}
    <2>1. i \in 1 .. Len(reports) \/ i = Len(reports) + 1
      BY <1>1
    <2>2. i \in 1 .. Len(reports) => reports'[i] = reports[i]
      BY <1>1
    <2>3. i = Len(reports) + 1 => reports'[i] = r
      BY <1>1
    <2> QED
      BY <2>1, <2>2, <2>3 DEF Pending
  <1> QED
    BY <1>2 DEF Pending

\* Losing them all.
LEMMA DropPending ==
    ASSUME DropWire PROVE Pending' = {} /\ live' = live
  BY DEF DropWire, Pending

\* A fresh ClOrdID is nobody's.
LEMMA SendOrderInv ==
    ASSUME TypeOK, OrderInv, NEW side, NEW qty, NEW l1, NEW ts, send_ioc(side, qty, l1, ts)
    PROVE  OrderInv'
  <1>1. /\ UNCHANGED <<open_orders, er_pc, er, live, reports, has_position, open_order>>
        /\ send_pc = "out"
    BY DEF send_ioc, riskVars, brokerVars
  <1>2. Pending' = Pending
    BY <1>1 DEF Pending
  <1>3. CASE UNCHANGED <<draft, order_seq, send_pc>>
    BY <1>1, <1>2, <1>3 DEF OrderInv, IdInv, UnsentInv, TrackInv, LiveInv, Issued, Finishing
  <1>4. CASE draft'.clordid = order_seq /\ order_seq' = order_seq + 1 /\ send_pc' = "insert"
    <2>1. order_seq \in Nat
      BY DEF TypeOK, OmsTypeOK
    <2>2. IdInv' /\ UnsentInv'
      BY <1>1, <1>2, <1>4, <2>1 DEF OrderInv, IdInv, UnsentInv, Issued
    <2>3. TrackInv' /\ LiveInv'
      BY <1>1, <1>2, <1>4 DEF OrderInv, TrackInv, LiveInv, Finishing
    <2> QED
      BY <2>2, <2>3 DEF OrderInv
  <1> QED
    BY <1>3, <1>4 DEF send_ioc

\* Steps that touch none of the orders.
LEMMA OrderFrame ==
    ASSUME OrderInv,
           UNCHANGED <<order_seq, open_orders, send_pc, draft, er_pc, er, live, reports,
                       has_position, open_order>>
    PROVE  OrderInv'
  BY DEF OrderInv, IdInv, UnsentInv, TrackInv, LiveInv, Issued, Pending, Finishing

\* send_ioc, step by step.
LEMMA AlphaOrderInv == TypeOK /\ OrderInv /\ Alpha => OrderInv'
  <1> SUFFICES ASSUME TypeOK, OrderInv, Alpha PROVE OrderInv'
    OBVIOUS
  <1>1. CASE AlphaPop \/ AlphaExit \/ AlphaNoEntry
    BY <1>1, OrderFrame DEF AlphaPop, AlphaExit, AlphaNoEntry, riskVars, brokerVars, omsVars
  <1>2. CASE AlphaTimer
    <2>1. cancel_order(open_order.clordid) \/ UNCHANGED <<riskVars, brokerVars, omsVars>>
      BY <1>2 DEF AlphaTimer
    <2>2. /\ UNCHANGED <<open_orders, send_pc, draft, er_pc, er, live, reports,
                         has_position, open_order>>
          /\ order_seq' \in {order_seq, order_seq + 1}
      <3>1. CASE cancel_order(open_order.clordid)
        BY <3>1 DEF cancel_order, riskVars, brokerVars
      <3>2. CASE UNCHANGED <<riskVars, brokerVars, omsVars>>
        BY <3>2 DEF riskVars, brokerVars, omsVars
      <3> QED
        BY <2>1, <3>1, <3>2
    <2>3. Issued \subseteq Issued'
      <3>1. order_seq \in Nat
        BY DEF TypeOK, OmsTypeOK
      <3>2. order_seq' = order_seq \/ order_seq' = order_seq + 1
        BY <2>2
      <3>3. ASSUME NEW id \in 0 .. order_seq - 1 PROVE id \in 0 .. order_seq' - 1
        BY <3>1, <3>2
      <3> QED
        BY <3>3 DEF Issued
    <2> QED
      BY <2>2, <2>3 DEF OrderInv, IdInv, UnsentInv, TrackInv, LiveInv, Pending, Finishing
  <1>3. CASE AlphaClose \/ AlphaEntry
    BY <1>3, SendOrderInv DEF AlphaClose, AlphaEntry
  <1>4. CASE SendInsert
    <2>1. /\ UNCHANGED <<order_seq, draft, er_pc, er, live, reports, has_position, open_order>>
          /\ open_orders' = open_orders \cup {draft} /\ send_pc = "insert"
      BY <1>4 DEF SendInsert, riskVars, brokerVars
    <2> QED
      BY <2>1 DEF OrderInv, IdInv, UnsentInv, TrackInv, LiveInv, Issued, Pending, Finishing
  <1>5. CASE SendRegister
    <2>1. /\ UNCHANGED <<order_seq, draft, er_pc, er, live, reports, open_orders>>
          /\ open_order' = draft /\ send_pc = "register" /\ send_pc' = "transmit"
      BY <1>5 DEF SendRegister, on_order_sent, brokerVars
    <2> QED
      BY <2>1 DEF OrderInv, IdInv, UnsentInv, TrackInv, LiveInv, Issued, Pending, Finishing
  <1>6. CASE SendUnwind
    <2>1. /\ UNCHANGED <<order_seq, draft, er_pc, er, live, reports>> /\ ~has_position'
          /\ open_orders' = open_orders \ {draft} /\ send_pc = "unwind" /\ send_pc' = "out"
      BY <1>6 DEF SendUnwind, on_reject, brokerVars
    <2> QED
      BY <2>1 DEF OrderInv, IdInv, UnsentInv, TrackInv, LiveInv, Issued, Pending, Finishing
  <1>7. CASE SendTransmit
    <2>1. /\ UNCHANGED <<order_seq, draft, er_pc, er, reports, open_orders, has_position, open_order>>
          /\ send_pc = "transmit" /\ send_pc' \in {"out", "unwind"}
      BY <1>7 DEF SendTransmit, Accept, riskVars, brokerVars
    <2>2. CASE UNCHANGED live
      BY <2>1, <2>2 DEF OrderInv, IdInv, UnsentInv, TrackInv, LiveInv, Issued, Pending, Finishing
    <2>3. CASE send_pc' = "out" /\ Accept(draft)
      <3>1. PICK new : new.clordid = draft.clordid /\ live' = live \cup {new}
        BY <2>3 DEF Accept
      <3>2. Pending' = Pending
        BY <2>1 DEF Pending
      <3>3. IdInv' /\ UnsentInv' /\ TrackInv'
        BY <2>1, <2>3, <3>1, <3>2 DEF OrderInv, IdInv, UnsentInv, TrackInv, Issued
      <3>4. draft \in open_orders
        BY <2>1 DEF OrderInv, TrackInv
      <3>5. LiveInv'
        BY <2>1, <3>1, <3>2, <3>4 DEF OrderInv, LiveInv, UnsentInv, Finishing
      <3> QED
        BY <3>3, <3>5 DEF OrderInv
    <2> QED
      BY <1>7, <2>2, <2>3 DEF SendTransmit, brokerVars
  <1> QED
    BY <1>1, <1>2, <1>3, <1>4, <1>5, <1>6, <1>7 DEF Alpha, AlphaSend, AlphaTransmit

\* on_execution_report, step by step.
LEMMA FixOrderInv == TypeOK /\ OrderInv /\ (Fix \/ FixSession) => OrderInv'
  <1> SUFFICES ASSUME TypeOK, OrderInv, Fix \/ FixSession PROVE OrderInv'
    OBVIOUS
  <1>1. CASE onLogon
    BY <1>1, OrderFrame DEF onLogon, riskVars, brokerVars
  <1>2. CASE onLogout
    <2>1. UNCHANGED <<order_seq, open_orders, send_pc, draft, er_pc, er, has_position, open_order>>
      BY <1>2 DEF onLogout, riskVars
    <2>2. Pending' = {} /\ live' = live
      BY <1>2, DropPending DEF onLogout
    <2> QED
      BY <2>1, <2>2 DEF OrderInv, IdInv, UnsentInv, TrackInv, LiveInv, Issued, Finishing
  <1>3. CASE ReportGate
    <2>1. /\ UNCHANGED <<order_seq, open_orders, send_pc, draft, er, has_position, open_order,
                         live, reports>>
          /\ er_pc = "gate" /\ er_pc' = IF er.done THEN "erase" ELSE "idle"
      BY <1>3 DEF ReportGate, brokerVars
    <2> QED
      BY <2>1 DEF OrderInv, IdInv, UnsentInv, TrackInv, LiveInv, Issued, Pending, Finishing
  <1>4. CASE ReportErase
    <2>1. /\ UNCHANGED <<order_seq, send_pc, draft, has_position, open_order, live, reports>>
          /\ er_pc = "erase" /\ er_pc' = "idle" /\ er'.clordid = 0
          /\ \A o \in open_orders : o.clordid # er.clordid => o \in open_orders'
      BY <1>4 DEF ReportErase, Found, NoReport, riskVars, brokerVars
    <2>2. 0 \in Issued
      BY DEF Issued, TypeOK, OmsTypeOK
    <2>3. IdInv' /\ UnsentInv'
      BY <2>1, <2>2 DEF OrderInv, IdInv, UnsentInv, Issued, Pending
    <2>4. TrackInv'
      BY <2>1 DEF OrderInv, UnsentInv, TrackInv
    <2>5. LiveInv'
      BY <2>1 DEF OrderInv, LiveInv, Pending, Finishing
    <2> QED
      BY <2>3, <2>4, <2>5 DEF OrderInv
  <1>5. CASE ReportIgnored
    <2>1. /\ UNCHANGED <<order_seq, open_orders, send_pc, draft, er_pc, er, has_position,
                         open_order, live>>
          /\ Pending' \subseteq Pending
      BY <1>5, TakePending DEF ReportIgnored, TakeReport, riskVars
    <2> QED
      BY <2>1 DEF OrderInv, IdInv, UnsentInv, TrackInv, LiveInv, Issued, Finishing
  <1>6. CASE ReportFill \/ ReportReject
    <2> DEFINE r == Head(reports)
    <2>1. /\ UNCHANGED <<order_seq, open_orders, send_pc, draft, live>>
          /\ Pending' \subseteq Pending /\ r \in Pending
      BY <1>6, TakePending DEF ReportFill, ReportReject, TakeReport
    <2>2. ~has_position'
      BY <1>6 DEF ReportFill, ReportReject, FillBook, on_reject
    <2>3. er'.clordid = r.clordid
      BY <1>6 DEF ReportFill, ReportReject, Found, NoReport
    <2>4. Finishing' => r.type \in FinalTypes
      <3>1. CASE ReportReject
        BY <3>1 DEF ReportReject, FinalTypes
      <3>2. CASE ReportFill
        <4>1. er_pc' = "gate" /\ er'.done = (r.type = "FILL")
          BY <3>2 DEF ReportFill
        <4> QED
          BY <4>1 DEF Finishing, FinalTypes
      <3> QED
        BY <1>6, <3>1, <3>2
    <2>5. IdInv' /\ UnsentInv' /\ TrackInv'
      BY <2>1, <2>2, <2>3 DEF OrderInv, IdInv, UnsentInv, TrackInv, Issued
    <2>6. LiveInv'
      BY <2>1, <2>3, <2>4 DEF OrderInv, LiveInv
    <2> QED
      BY <2>5, <2>6 DEF OrderInv
  <1> QED
    BY <1>1, <1>2, <1>3, <1>4, <1>5, <1>6 DEF Fix, FixSession, FixReport, FixGate

\* The broker ends an order at most once, and reports only on what it works on.
LEMMA BrokerOrderInv == TypeOK /\ OrderInv /\ BrokerAnswers => OrderInv'
  <1> SUFFICES ASSUME TypeOK, OrderInv, BrokerAnswers PROVE OrderInv'
    OBVIOUS
  <1>1. PICK l \in live, type \in ExecTypes, n \in 0 .. Lot, px \in FillPrice :
           Answer(l, type, n, px, logged_on)
    BY DEF BrokerAnswers
  <1>2. UNCHANGED <<order_seq, open_orders, send_pc, draft, er_pc, er, has_position, open_order>>
    BY DEF BrokerAnswers, riskVars, omsVars
  <1> DEFINE r == [clordid |-> l.clordid, type |-> type, px |-> px]
             rest == [l EXCEPT !.left = @ - n]
  <1>3. l \in LiveOrder /\ r \in Report /\ r.clordid = l.clordid /\ r.type = type
    BY BrokerAssumption DEF TypeOK, BrokerTypeOK, LiveOrder, Report
  <1>4. rest.clordid = l.clordid
    BY <1>3 DEF LiveOrder
  <1>5. Pending' \subseteq Pending \cup {r}
    <2>1. reports' = Append(reports, r) \/ reports' = reports
      BY <1>1 DEF Answer
    <2> QED
      BY <2>1, <1>3, AppendPending DEF Pending
  <1>6. /\ live' \subseteq (live \ {l}) \cup {rest}
        /\ type \in FinalTypes => live' = live \ {l}
    BY <1>1, <1>3 DEF Answer, Traded, FillTypes, FinalTypes, LiveOrder
  <1>7. IdInv' /\ UnsentInv' /\ TrackInv'
    BY <1>2, <1>3, <1>4, <1>5, <1>6 DEF OrderInv, IdInv, UnsentInv, TrackInv, Issued
  <1>8. LiveInv'
    <2>1. \A m \in live' : \E k \in live : k.clordid = m.clordid
      BY <1>4, <1>6
    <2>2. \A m \in live' : \E o \in open_orders' : o.clordid = m.clordid
      BY <2>1, <1>2 DEF OrderInv, LiveInv
    <2>3. \A m, k \in live' : m.clordid = k.clordid => m = k
      BY <1>4, <1>6 DEF OrderInv, LiveInv
    <2>4. \A q \in Pending' : q.type \in FinalTypes => \A m \in live' : m.clordid # q.clordid
      <3>1. CASE type \in FinalTypes
        BY <3>1, <1>3, <1>5, <1>6 DEF OrderInv, LiveInv
      <3>2. CASE type \notin FinalTypes
        BY <3>2, <1>3, <1>5, <2>1 DEF OrderInv, LiveInv
      <3> QED
        BY <3>1, <3>2
    <2>5. Finishing' => \A m \in live' : m.clordid # er'.clordid
      BY <2>1, <1>2 DEF OrderInv, LiveInv, Finishing
    <2> QED
      BY <2>2, <2>3, <2>4, <2>5 DEF LiveInv
  <1> QED
    BY <1>7, <1>8 DEF OrderInv

\* The inductive invariant of the order lifecycle.
THEOREM OrdersCorrect == Spec => []OrderInv
  <1>1. Init => OrderInv
    BY DEF Init, RiskInit, BrokerInit, OmsInit, NoOrder, NoReport, OrderInv, IdInv, UnsentInv,
           TrackInv, LiveInv, Issued, Pending, Finishing
  <1>2. TypeOK /\ OrderInv /\ [Next]_vars => OrderInv'
    <2> SUFFICES ASSUME TypeOK, OrderInv, [Next]_vars PROVE OrderInv'
      OBVIOUS
    <2>1. CASE MainStop
      <3>1. /\ UNCHANGED <<order_seq, open_orders, send_pc, draft, er_pc, er, has_position,
                           open_order>>
            /\ Pending' = {} /\ live' = live
        BY <2>1, DropPending DEF MainStop, riskVars
      <3> QED
        BY <3>1 DEF OrderInv, IdInv, UnsentInv, TrackInv, LiveInv, Issued, Finishing
    <2>2. CASE MainJoin \/ on_signal \/ MdEvent \/ Tick \/ UNCHANGED vars
      BY <2>2, OrderFrame DEF MainJoin, on_signal, MdEvent, Tick, vars, riskVars, brokerVars,
               omsVars
    <2> QED
      BY <2>1, <2>2, AlphaOrderInv, FixOrderInv, BrokerOrderInv DEF Next, Main
  <1> QED
    BY <1>1, <1>2, TypeCorrect, PTL DEF Spec

\* on_order_sent against on_fill and erase: the order the risk manager would force
\* closed is in open_orders_.
THEOREM FlagBacked == Spec => []FlagBackedByOpenOrder
  <1>1. OrderInv => FlagBackedByOpenOrder
    BY DEF OrderInv, TrackInv, FlagBackedByOpenOrder
  <1> QED
    BY <1>1, OrdersCorrect, PTL

\* send_ioc against on_execution_report: an order the broker still works on has its
\* entry in open_orders_.
THEOREM LiveKnown == Spec => []LiveOrdersKnown
  <1>1. OrderInv => LiveOrdersKnown
    BY DEF OrderInv, LiveInv, LiveOrdersKnown, Found
  <1> QED
    BY <1>1, OrdersCorrect, PTL
=============================================================================
