----------------------------- MODULE RiskManager -----------------------------
(***************************************************************************)
(* sq::RiskManager (src/risk/risk_manager.cpp): the object that guards     *)
(* every signal and every fill.  The module holds its fields and one       *)
(* operator per method; RiskClient drives it on its own, TradingEngine     *)
(* drives it from the alpha thread and the FIX thread.                     *)
(*                                                                         *)
(* Definitions marked "Fault" are plausible bugs in the method they stand  *)
(* next to; they are used only to check that the properties detect them.   *)
(*                                                                         *)
(* Units.  Prices are the code's integer Price.  Slippage and PnL are kept *)
(* multiplied by kPriceScale, so the code's division by kPriceScale        *)
(* disappears and the three thresholds below are the Config values in the  *)
(* same scaled unit.  Time is uint64_t: differences wrap at TimeMod.       *)
(***************************************************************************)
EXTENDS Integers

CONSTANTS
    Price,             \* integer prices; 0 stands for "none"
    TimeMod,           \* 2^64: timestamps are in 0 .. TimeMod - 1
    MaxDailyLoss,      \* Config::max_daily_loss_usd      (scaled)
    TickSize,          \* Config::tick_size_usd
    ConsecSlips,       \* Config::cooldown_consec_slips
    SlipTicks,         \* Config::cooldown_slip_ticks     (scaled)
    AbortTicks,        \* Config::single_slip_abort_ticks (scaled)
    CooldownDuration,  \* Config::cooldown_duration_ns
    PositionTimeout    \* Config::position_timeout_ns

\* What Config promises of its values; every default satisfies it.
ASSUME RiskAssumption ==
    /\ Price \subseteq Int /\ 0 \in Price
    /\ TimeMod \in Nat \ {0}
    /\ MaxDailyLoss \in Nat
    /\ TickSize \in Nat
    /\ ConsecSlips \in Nat \ {0}
    /\ SlipTicks \in Nat
    /\ AbortTicks \in Nat
    /\ CooldownDuration \in Nat
    /\ PositionTimeout \in Nat

VARIABLES
    has_position,       \* bool has_position_
    open_order,         \* Order open_order_
    position_open_ns,   \* uint64_t position_open_ns_
    daily_pnl,          \* double daily_pnl_ (scaled)
    fused,              \* bool fused_
    consec_slip_count,  \* int consec_slip_count_
    cooldown_start_ns,  \* uint64_t cooldown_start_ns_, 0 means "never"
    total_trades        \* uint64_t total_trades_

riskVars == <<has_position, open_order, position_open_ns, daily_pnl, fused,
              consec_slip_count, cooldown_start_ns, total_trades>>

Time  == 0 .. TimeMod - 1
Side  == {"Buy", "Sell"}

\* struct Order.  clordid 0 is the empty id; timestamps travel as arguments and
\* status is written but never read, so neither is kept.
Order == [clordid : Nat, side : Side, qty : Nat, signal_l1 : Price]

NoOrder == [clordid |-> 0, side |-> "Buy", qty |-> 0, signal_l1 |-> 0]

\* a - b on uint64_t
Sub64(a, b) == IF a >= b THEN a - b ELSE a - b + TimeMod

RiskInit ==
    /\ has_position = FALSE
    /\ open_order = NoOrder
    /\ position_open_ns = 0
    /\ daily_pnl = 0
    /\ fused = FALSE
    /\ consec_slip_count = 0
    /\ cooldown_start_ns = 0
    /\ total_trades = 0

-----------------------------------------------------------------------------
(* Queries *)

\* Fault: the operands of the difference swapped.
in_cooldown_Swapped(now) ==
    /\ cooldown_start_ns # 0
    /\ Sub64(cooldown_start_ns, now) < CooldownDuration

in_cooldown(now) ==
    /\ cooldown_start_ns # 0
    /\ Sub64(now, cooldown_start_ns) < CooldownDuration

\* Faults: one of the three gates left out.
check_signal_NoFuse(now)     == ~has_position /\ ~in_cooldown(now)
check_signal_NoPosition(now) == ~fused /\ ~in_cooldown(now)
check_signal_NoCooldown(now) == ~fused /\ ~has_position

check_signal(now) ==
    /\ ~fused
    /\ ~has_position
    /\ ~in_cooldown(now)

\* Fault: > for >=.
timer_fires_Late(now) ==
    /\ has_position
    /\ Sub64(now, position_open_ns) > PositionTimeout

\* The condition under which on_timer invokes the force_close callback.
timer_fires(now) ==
    /\ has_position
    /\ Sub64(now, position_open_ns) >= PositionTimeout

\* Fault: std::abs left out.
slippage_ticks_Signed(signal_l1, fill_price) ==
    IF fill_price = 0 \/ signal_l1 = 0 THEN 0 ELSE fill_price - signal_l1

slippage_ticks(signal_l1, fill_price) ==
    IF fill_price = 0 \/ signal_l1 = 0
    THEN 0
    ELSE IF fill_price >= signal_l1 THEN fill_price - signal_l1
                                    ELSE signal_l1 - fill_price

-----------------------------------------------------------------------------
(* Methods *)

on_order_sent(order, now) ==
    /\ has_position' = TRUE
    /\ open_order' = order
    /\ position_open_ns' = now
    /\ UNCHANGED <<daily_pnl, fused, consec_slip_count, cooldown_start_ns, total_trades>>

\* on_fill up to the first log statement: the position is released and the
\* slippage charged before any of the gates below is updated.
FillBook(slip) ==
    /\ has_position' = FALSE
    /\ total_trades' = total_trades + 1
    /\ daily_pnl' = daily_pnl - slip * TickSize
    /\ UNCHANGED <<open_order, position_open_ns>>

\* A single bad fill starts the cooldown and returns, before the fuse is tested.
AbortGate(slip, now) ==
    /\ slip > AbortTicks
    /\ cooldown_start_ns' = now
    /\ consec_slip_count' = 0
    /\ UNCHANGED fused

\* Fault: a good fill does not clear the counter.
NextSlipCount_NoReset(slip) ==
    IF slip > SlipTicks THEN consec_slip_count + 1 ELSE consec_slip_count

NextSlipCount(slip) == IF slip > SlipTicks THEN consec_slip_count + 1 ELSE 0

\* Fault: > for >=.
SlipLimitReached_Late(slip) == slip > SlipTicks /\ NextSlipCount(slip) > ConsecSlips

SlipLimitReached(slip) == slip > SlipTicks /\ NextSlipCount(slip) >= ConsecSlips

SlipGate(slip, now) ==
    IF SlipLimitReached(slip)
    THEN consec_slip_count' = 0 /\ cooldown_start_ns' = now
    ELSE consec_slip_count' = NextSlipCount(slip) /\ UNCHANGED cooldown_start_ns

\* Fault: the limit is compared with the PnL before this fill was charged.
FuseGate_Stale(pnl) == fused' = (fused \/ daily_pnl < -MaxDailyLoss)

FuseGate(pnl) == fused' = (fused \/ pnl < -MaxDailyLoss)

\* on_fill after the first log statement, pnl being daily_pnl_ as FillBook left it.
FillGate(slip, pnl, now) ==
    \/ AbortGate(slip, now)
    \/ slip <= AbortTicks /\ SlipGate(slip, now) /\ FuseGate(pnl)

on_fill(slip, now) == FillBook(slip) /\ FillGate(slip, daily_pnl', now)

on_reject ==
    /\ has_position' = FALSE
    /\ UNCHANGED <<open_order, position_open_ns, daily_pnl, fused,
                   consec_slip_count, cooldown_start_ns, total_trades>>

reset_daily ==
    /\ daily_pnl' = 0
    /\ fused' = FALSE
    /\ consec_slip_count' = 0
    /\ cooldown_start_ns' = 0
    /\ has_position' = FALSE
    /\ total_trades' = 0
    /\ UNCHANGED <<open_order, position_open_ns>>

-----------------------------------------------------------------------------
RiskTypeOK ==
    /\ has_position \in BOOLEAN
    /\ open_order \in Order
    /\ position_open_ns \in Time
    /\ daily_pnl \in Int /\ daily_pnl <= 0
    /\ fused \in BOOLEAN
    /\ consec_slip_count \in Nat
    /\ cooldown_start_ns \in Time
    /\ total_trades \in Nat
=============================================================================
