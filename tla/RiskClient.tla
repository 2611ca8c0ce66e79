------------------------------ MODULE RiskClient ------------------------------
(***************************************************************************)
(* RiskManager called by one thread, in any order of its methods, with the *)
(* clock it is given running forward: what its unit tests do, for every    *)
(* sequence of calls up to MaxFills fills.                                 *)
(***************************************************************************)
EXTENDS RiskManager, Sequences, FiniteSetsExt

CONSTANTS
    MaxTime,   \* bound on the clock
    MaxFills   \* bound on the fills between two daily resets

ASSUME ClientAssumption ==
    /\ MaxTime \in Nat \ {0} /\ MaxTime < TimeMod
    /\ MaxFills \in Nat

VARIABLES
    clock,     \* TscClock::now_ns() of the caller
    slip_log   \* history: every fill since the last reset, in order, with its Slippage

vars == <<riskVars, clock, slip_log>>

FillRecord == [slip : Nat, at : Time, started : BOOLEAN]

Init ==
    /\ RiskInit
    /\ clock = 1
    /\ slip_log = <<>>

OrderSent ==
    /\ \E side \in Side, l1 \in Price :
          on_order_sent([clordid |-> 1, side |-> side, qty |-> 1, signal_l1 |-> l1], clock)
    /\ UNCHANGED <<clock, slip_log>>

\* How far a fill is from the price it was meant for, either way; a fill with a price
\* missing tells nothing.
Slippage(l1, px) == IF 0 \in {l1, px} THEN 0 ELSE Max({l1 - px, px - l1})

\* Two fills never carry the same nanosecond, hence the tick.
Fill(l1, px) ==
    /\ clock < MaxTime
    /\ Len(slip_log) < MaxFills
    /\ on_fill(slippage_ticks(l1, px), clock)
    /\ clock' = clock + 1
    /\ slip_log' = Append(slip_log, [slip |-> Slippage(l1, px), at |-> clock,
                                     started |-> cooldown_start_ns' = clock])

Reject == on_reject /\ UNCHANGED <<clock, slip_log>>

Reset ==
    /\ reset_daily
    /\ slip_log' = <<>>
    /\ UNCHANGED clock

Tick ==
    /\ clock < MaxTime
    /\ clock' = clock + 1
    /\ UNCHANGED <<riskVars, slip_log>>

Next ==
    \/ OrderSent
    \/ \E l1, px \in Price : Fill(l1, px)
    \/ Reject
    \/ Reset
    \/ Tick

Spec == Init /\ [][Next]_vars

-----------------------------------------------------------------------------
\* Every field keeps its type and the history is a sequence of fills.
TypeOK ==
    /\ RiskTypeOK
    /\ clock \in 1 .. MaxTime
    /\ slip_log \in Seq(FillRecord)

\* Positions i - ConsecSlips + 1 .. i of the history all slipped too far.
SlipRun(i) ==
    /\ i >= ConsecSlips
    /\ \A j \in (i - ConsecSlips + 1) .. i : slip_log[j].slip > SlipTicks

\* on_fill: no run of cooldown_consec_slips over-threshold fills goes by without
\* one of them starting a cooldown, whatever aborts and good fills lie between.
SlipRunStartsCooldown ==
    \A i \in 1 .. Len(slip_log) :
        SlipRun(i) => \E j \in (i - ConsecSlips + 1) .. i : slip_log[j].started

\* on_fill: a cooldown starts for a reason, either a single fill beyond the abort
\* threshold or a full run of consecutive slips ending at that very fill; a fill with
\* a price of 0 is neither, nor part of one.
NoSpuriousCooldown ==
    \A i \in 1 .. Len(slip_log) :
        slip_log[i].started => slip_log[i].slip > AbortTicks \/ SlipRun(i)

\* check_signal: once a fill has started a cooldown, every signal is refused until
\* cooldown_duration_ns has passed since then, however many fills follow.
CooldownBlocks ==
    \A i \in 1 .. Len(slip_log) :
        (slip_log[i].started /\ clock < slip_log[i].at + CooldownDuration)
            => ~check_signal(clock)

LossLimitHit == daily_pnl < -MaxDailyLoss

\* on_fill: the only way to be beyond the daily loss limit without the fuse blown
\* is that the last fill took the single-slippage early return; any other fill
\* blows the fuse.  And a blown fuse always means the limit is exceeded.
FuseTracksLoss ==
    /\ fused => LossLimitHit
    /\ LossLimitHit /\ ~fused =>
           slip_log # <<>> /\ slip_log[Len(slip_log)].slip > AbortTicks
=============================================================================
