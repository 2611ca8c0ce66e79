--------------------------- MODULE RiskClientProofs ---------------------------
(***************************************************************************)
(* RiskClient's properties for every configuration of RiskManager, every   *)
(* set of prices and every bound.                                          *)
(***************************************************************************)
EXTENDS RiskClient, TLAPS

\* slippage_ticks takes the absolute difference: it is never negative.
LEMMA SlipIsNat ==
    ASSUME NEW l1 \in Price, NEW px \in Price
    PROVE  slippage_ticks(l1, px) \in Nat
  BY RiskAssumption DEF slippage_ticks

\* slippage_ticks computes the slippage the history records.
LEMMA SlipIsTrue ==
    ASSUME NEW l1 \in Price, NEW px \in Price
    PROVE  slippage_ticks(l1, px) = Slippage(l1, px)
  <1>1. l1 \in Int /\ px \in Int
    BY RiskAssumption
  <1> DEFINE d == IF px >= l1 THEN px - l1 ELSE l1 - px
             S == {l1 - px, px - l1}
  <1>2. d \in S /\ \A x \in S : d >= x
    BY <1>1
  <1>3. \A x \in S : (\A y \in S : x >= y) => x = d
    BY <1>1
  <1> HIDE DEF d, S
  <1>4. Max(S) = d
    BY <1>2, <1>3 DEF Max
  <1> QED
    BY <1>1, <1>4 DEF slippage_ticks, Slippage, d, S

LEMMA FillLog ==
    ASSUME NEW l1 \in Price, NEW px \in Price, Fill(l1, px)
    PROVE  slip_log' = Append(slip_log, [slip |-> slippage_ticks(l1, px), at |-> clock,
                                         started |-> cooldown_start_ns' = clock])
  BY SlipIsTrue DEF Fill

\* on_fill keeps the types of the fields it writes.
LEMMA FillTypes ==
    ASSUME RiskTypeOK, NEW slip \in Nat, NEW now \in Time, on_fill(slip, now)
    PROVE  RiskTypeOK'
  <1>1. /\ has_position' \in BOOLEAN /\ open_order' \in Order
        /\ position_open_ns' \in Time
    BY Zenon DEF RiskTypeOK, on_fill, FillBook
  <1>2. total_trades' \in Nat
    BY SMT DEF RiskTypeOK, on_fill, FillBook
  <1>3. daily_pnl' \in Int /\ daily_pnl' <= 0
    <2>1. slip * TickSize \in Nat
      BY RiskAssumption
    <2> QED
      BY <2>1 DEF RiskTypeOK, on_fill, FillBook
  <1>4. fused' \in BOOLEAN
    BY Zenon DEF RiskTypeOK, on_fill, FillGate, AbortGate, FuseGate
  <1>5. consec_slip_count' \in Nat /\ cooldown_start_ns' \in Time
    BY DEF RiskTypeOK, on_fill, FillGate, AbortGate, SlipGate, NextSlipCount
  <1> QED
    BY <1>1, <1>2, <1>3, <1>4, <1>5 DEF RiskTypeOK

\* Every reachable state is well typed: the fields of RiskManager under its methods,
\* called in any order.
THEOREM TypeCorrect == Spec => []TypeOK
  <1>1. Init => TypeOK
    <2> SUFFICES ASSUME Init PROVE TypeOK
      OBVIOUS
    <2>1. /\ NoOrder \in Order /\ 0 \in Time /\ 1 \in 1 .. MaxTime
          /\ 0 \in Nat /\ 0 \in Int /\ 0 <= 0
      BY RiskAssumption, ClientAssumption DEF NoOrder, Order, Side, Time
    <2>2. RiskTypeOK
      BY <2>1, Zenon DEF Init, RiskInit, RiskTypeOK
    <2> QED
      BY <2>1, <2>2 DEF Init, TypeOK
  <1>2. TypeOK /\ [Next]_vars => TypeOK'
    <2> SUFFICES ASSUME TypeOK, [Next]_vars PROVE TypeOK'
      OBVIOUS
    <2>0. clock \in Time /\ clock + 1 \in Nat
      BY RiskAssumption, ClientAssumption DEF TypeOK, Time
    <2>1. CASE OrderSent
      BY <2>0, <2>1 DEF TypeOK, RiskTypeOK, OrderSent, on_order_sent, Order
    <2>2. ASSUME NEW l1 \in Price, NEW px \in Price, Fill(l1, px) PROVE TypeOK'
      <3> DEFINE slip == slippage_ticks(l1, px)
      <3>1. slip \in Nat
        BY SlipIsNat
      <3>2. on_fill(slip, clock) /\ clock' = clock + 1 /\ clock < MaxTime
        BY <2>2 DEF Fill
      <3>3. RiskTypeOK'
        BY <2>0, <3>1, <3>2, FillTypes DEF TypeOK
      <3>4. slip_log' \in Seq(FillRecord)
        <4>1. [slip |-> slip, at |-> clock, started |-> cooldown_start_ns' = clock]
                 \in FillRecord
          BY <3>1, <2>0 DEF FillRecord
        <4> QED
          BY <4>1, <2>2, FillLog DEF TypeOK
      <3> QED
        BY <3>2, <3>3, <3>4, ClientAssumption DEF TypeOK
    <2>3. CASE Reject
      BY <2>3, Zenon DEF TypeOK, RiskTypeOK, Reject, on_reject
    <2>4. CASE Reset
      <3>1. 0 \in Time /\ 0 \in Nat /\ 0 \in Int /\ 0 <= 0
        BY RiskAssumption DEF Time
      <3>2. RiskTypeOK'
        BY <2>4, <3>1, Zenon DEF TypeOK, RiskTypeOK, Reset, reset_daily
      <3> QED
        BY <2>4, <3>2 DEF TypeOK, Reset
    <2>5. CASE Tick
      BY <2>5, ClientAssumption DEF TypeOK, RiskTypeOK, Tick, riskVars
    <2>6. CASE UNCHANGED vars
      BY <2>6 DEF TypeOK, RiskTypeOK, vars, riskVars
    <2> QED
      BY <2>1, <2>2, <2>3, <2>4, <2>5, <2>6 DEF Next
  <1> QED
    BY <1>1, <1>2, PTL DEF Spec

-----------------------------------------------------------------------------
\* What one fill does to the fuse, given what it does to the PnL.
LEMMA FillFuse ==
    ASSUME TypeOK, NEW l1 \in Price, NEW px \in Price, Fill(l1, px)
    PROVE  LET slip == slippage_ticks(l1, px) IN
           /\ LossLimitHit => LossLimitHit'
           /\ slip_log' # <<>> /\ slip_log'[Len(slip_log')].slip = slip
           /\ \/ slip > AbortTicks /\ fused' = fused
              \/ fused' = (fused \/ LossLimitHit')
  <1> DEFINE slip == slippage_ticks(l1, px)
  <1>1. slip \in Nat
    BY SlipIsNat
  <1>2. on_fill(slip, clock)
    BY DEF Fill
  <1>3. LossLimitHit => LossLimitHit'
    <2>1. slip * TickSize \in Nat
      BY <1>1, RiskAssumption
    <2>2. daily_pnl' = daily_pnl - slip * TickSize
      BY <1>2 DEF on_fill, FillBook
    <2> QED
      BY <2>1, <2>2, RiskAssumption DEF LossLimitHit, TypeOK, RiskTypeOK
  <1>4. slip_log' # <<>> /\ slip_log'[Len(slip_log')].slip = slip
    <2>1. slip_log' = Append(slip_log, [slip |-> slip, at |-> clock,
                                        started |-> cooldown_start_ns' = clock])
      BY FillLog
    <2> QED
      BY <2>1 DEF TypeOK
  <1>5. \/ slip > AbortTicks /\ fused' = fused
        \/ fused' = (fused \/ LossLimitHit')
    BY <1>2, Zenon DEF on_fill, FillGate, AbortGate, FuseGate, LossLimitHit
  <1> QED
    BY <1>3, <1>4, <1>5

\* on_fill: the fuse is blown exactly when the loss limit is exceeded, save that a
\* fill beyond the abort threshold returns before testing it.
THEOREM FuseCorrect == Spec => []FuseTracksLoss
  <1>1. Init => FuseTracksLoss
    BY RiskAssumption DEF Init, RiskInit, FuseTracksLoss, LossLimitHit
  <1>2. TypeOK /\ FuseTracksLoss /\ [Next]_vars => FuseTracksLoss'
    <2> SUFFICES ASSUME TypeOK, FuseTracksLoss, [Next]_vars PROVE FuseTracksLoss'
      OBVIOUS
    <2>1. ASSUME UNCHANGED <<daily_pnl, fused, slip_log>> PROVE FuseTracksLoss'
      BY <2>1 DEF FuseTracksLoss, LossLimitHit
    <2>2. ASSUME NEW l1 \in Price, NEW px \in Price, Fill(l1, px) PROVE FuseTracksLoss'
      BY <2>2, FillFuse, Zenon DEF FuseTracksLoss
    <2>3. CASE Reset
      <3>1. ~fused' /\ daily_pnl' = 0
        BY <2>3 DEF Reset, reset_daily
      <3> QED
        BY <3>1, RiskAssumption DEF FuseTracksLoss, LossLimitHit
    <2>4. CASE OrderSent
      BY <2>1, <2>4 DEF OrderSent, on_order_sent
    <2>5. CASE Reject
      BY <2>1, <2>5 DEF Reject, on_reject
    <2>6. CASE Tick
      BY <2>1, <2>6 DEF Tick, riskVars
    <2>7. CASE UNCHANGED vars
      BY <2>1, <2>7 DEF vars, riskVars
    <2> QED
      BY <2>2, <2>3, <2>4, <2>5, <2>6, <2>7 DEF Next
  <1> QED
    BY <1>1, <1>2, TypeCorrect, PTL DEF Spec

-----------------------------------------------------------------------------
\* The inductive part of CooldownBlocks: the cooldown that counts is the latest one
\* started, and it started in the past.
CooldownInv ==
    /\ cooldown_start_ns <= clock
    /\ \A i \in 1 .. Len(slip_log) : slip_log[i].started =>
          cooldown_start_ns # 0 /\ slip_log[i].at <= cooldown_start_ns

\* in_cooldown, with the uint64_t difference taken of ordered operands.
LEMMA CooldownInvSuffices == TypeOK /\ CooldownInv => CooldownBlocks
  <1> SUFFICES ASSUME TypeOK, CooldownInv,
                      NEW i \in 1 .. Len(slip_log), slip_log[i].started,
                      clock < slip_log[i].at + CooldownDuration
               PROVE  ~check_signal(clock)
    BY DEF CooldownBlocks
  <1>1. slip_log[i] \in FillRecord
    BY DEF TypeOK
  <1>2. cooldown_start_ns # 0 /\ slip_log[i].at <= cooldown_start_ns
    BY DEF CooldownInv
  <1>3. cooldown_start_ns <= clock /\ cooldown_start_ns \in Int /\ clock \in Int
    BY RiskAssumption, ClientAssumption DEF CooldownInv, TypeOK, RiskTypeOK, Time
  <1>4. Sub64(clock, cooldown_start_ns) < CooldownDuration
    BY <1>1, <1>2, <1>3, RiskAssumption DEF Sub64, FillRecord, Time
  <1> QED
    BY <1>2, <1>4 DEF check_signal, in_cooldown

\* check_signal: no signal passes before the cooldown started by any fill of the day
\* is over, whatever the thresholds and durations configured.
THEOREM CooldownCorrect == Spec => []CooldownBlocks
  <1>1. Init => CooldownInv
    BY DEF Init, RiskInit, CooldownInv
  <1>2. TypeOK /\ CooldownInv /\ [Next]_vars => CooldownInv'
    <2> SUFFICES ASSUME TypeOK, CooldownInv, [Next]_vars PROVE CooldownInv'
      OBVIOUS
    <2>0. clock \in Nat \ {0} /\ cooldown_start_ns \in Nat
      BY RiskAssumption, ClientAssumption DEF TypeOK, RiskTypeOK, Time
    <2>1. ASSUME UNCHANGED <<cooldown_start_ns, slip_log>>, clock' \in {clock, clock + 1}
          PROVE  CooldownInv'
      BY <2>0, <2>1 DEF CooldownInv
    <2>2. ASSUME NEW l1 \in Price, NEW px \in Price, Fill(l1, px) PROVE CooldownInv'
      <3> DEFINE r == [slip |-> slippage_ticks(l1, px), at |-> clock,
                       started |-> cooldown_start_ns' = clock]
      <3>1. slip_log' = Append(slip_log, r) /\ clock' = clock + 1
        BY <2>2, FillLog DEF Fill
      <3>2. cooldown_start_ns' \in {cooldown_start_ns, clock}
        BY <2>2 DEF Fill, on_fill, FillGate, AbortGate, SlipGate
      <3>3. ASSUME NEW i \in 1 .. Len(slip_log'), slip_log'[i].started
            PROVE  cooldown_start_ns' # 0 /\ slip_log'[i].at <= cooldown_start_ns'
        <4>1. CASE i = Len(slip_log) + 1
          <5>1. slip_log'[i] = r
            BY <3>1, <4>1 DEF TypeOK
          <5>2. cooldown_start_ns' = clock
            <6>1. r.started
              BY <5>1, <3>3, Zenon
            <6>2. r.started = (cooldown_start_ns' = clock)
              BY SMT
            <6> QED
              BY <6>1, <6>2, Zenon
          <5>3. slip_log'[i].at = clock
            BY <5>1
          <5> QED
            BY <5>2, <5>3, <2>0
        <4>2. CASE i \in 1 .. Len(slip_log)
          <5>1. slip_log'[i] = slip_log[i] /\ slip_log[i] \in FillRecord
            BY <3>1, <4>2 DEF TypeOK
          <5>2. cooldown_start_ns # 0 /\ slip_log[i].at <= cooldown_start_ns
            BY <5>1, <3>3, <4>2 DEF CooldownInv
          <5>3. slip_log[i].at \in Int
            BY <5>1 DEF FillRecord, Time
          <5> QED
            BY <5>1, <5>2, <5>3, <3>2, <2>0 DEF CooldownInv
        <4> QED
          BY <3>1, <4>1, <4>2 DEF TypeOK
      <3> QED
        BY <3>1, <3>2, <3>3, <2>0 DEF CooldownInv
    <2>3. CASE Reset
      BY <2>3, <2>0 DEF Reset, reset_daily, CooldownInv
    <2>4. CASE OrderSent
      BY <2>1, <2>4 DEF OrderSent, on_order_sent
    <2>5. CASE Reject
      BY <2>1, <2>5 DEF Reject, on_reject
    <2>6. CASE Tick
      BY <2>1, <2>6 DEF Tick, riskVars
    <2>7. CASE UNCHANGED vars
      BY <2>1, <2>7 DEF vars, riskVars
    <2> QED
      BY <2>2, <2>3, <2>4, <2>5, <2>6, <2>7 DEF Next
  <1> QED
    BY <1>1, <1>2, CooldownInvSuffices, TypeCorrect, PTL DEF Spec
-----------------------------------------------------------------------------
(* consec_slip_count_ against the history *)

\* The counter is the number of over-threshold fills at the end of the history that
\* started no cooldown; the fill before them, if there is one, ended a run or
\* started a cooldown.  A cooldown always starts at a fill, so in the past.
SlipInv ==
    LET n == Len(slip_log)
        c == consec_slip_count
    IN /\ c <= n /\ c < ConsecSlips
       /\ \A j \in 1 .. n : j > n - c =>
             slip_log[j].slip > SlipTicks /\ ~slip_log[j].started
       /\ c < n => slip_log[n - c].slip <= SlipTicks \/ slip_log[n - c].started
       /\ cooldown_start_ns < clock

\* What one fill does to the counter and to the history.
LEMMA FillSlip ==
    ASSUME TypeOK, SlipInv, NEW l1 \in Price, NEW px \in Price, Fill(l1, px)
    PROVE  LET n == Len(slip_log)
               r == slip_log'[n + 1]
           IN /\ Len(slip_log') = n + 1 /\ r.slip \in Nat
              /\ \A i \in 1 .. n : slip_log'[i] = slip_log[i]
              /\ clock' = clock + 1 /\ cooldown_start_ns' < clock'
              /\ \/ r.slip > AbortTicks /\ r.started /\ consec_slip_count' = 0
                 \/ /\ r.slip > SlipTicks /\ consec_slip_count + 1 >= ConsecSlips
                    /\ r.started /\ consec_slip_count' = 0
                 \/ /\ r.slip > SlipTicks /\ consec_slip_count + 1 < ConsecSlips
                    /\ ~r.started /\ consec_slip_count' = consec_slip_count + 1
                 \/ r.slip <= SlipTicks /\ ~r.started /\ consec_slip_count' = 0
  <1> DEFINE s == slippage_ticks(l1, px)
             n == Len(slip_log)
             b == cooldown_start_ns' = clock
             r == [slip |-> s, at |-> clock, started |-> b]
  <1>1. s \in Nat
    BY SlipIsNat
  <1>2. slip_log' = Append(slip_log, r) /\ clock' = clock + 1
    BY FillLog DEF Fill
  <1>3. /\ clock \in Nat /\ cooldown_start_ns \in Nat /\ consec_slip_count \in Nat
        /\ slip_log \in Seq(FillRecord)
    BY RiskAssumption, ClientAssumption DEF TypeOK, RiskTypeOK, Time
  <1>4. \/ s > AbortTicks /\ cooldown_start_ns' = clock /\ consec_slip_count' = 0
        \/ /\ s > SlipTicks /\ consec_slip_count + 1 >= ConsecSlips
           /\ cooldown_start_ns' = clock /\ consec_slip_count' = 0
        \/ /\ s > SlipTicks /\ consec_slip_count + 1 < ConsecSlips
           /\ cooldown_start_ns' = cooldown_start_ns
           /\ consec_slip_count' = consec_slip_count + 1
        \/ /\ s <= SlipTicks /\ cooldown_start_ns' = cooldown_start_ns
           /\ consec_slip_count' = 0
    <2>1. on_fill(s, clock)
      BY DEF Fill
    <2> HIDE DEF s
    <2>2. AbortGate(s, clock) \/ (s <= AbortTicks /\ SlipGate(s, clock))
      BY <2>1 DEF on_fill, FillGate
    <2>3. CASE AbortGate(s, clock)
      BY <2>3 DEF AbortGate
    <2>4. CASE SlipGate(s, clock)
      BY <2>4, <1>1, <1>3, RiskAssumption DEF SlipGate, SlipLimitReached, NextSlipCount
    <2> QED
      BY <2>2, <2>3, <2>4
  <1>5. cooldown_start_ns < clock
    BY DEF SlipInv
  <1>6. cooldown_start_ns' = cooldown_start_ns => ~b
    BY <1>3, <1>5
  <1>7. cooldown_start_ns' \in {cooldown_start_ns, clock}
    BY <1>4
  <1>8. cooldown_start_ns' < clock'
    BY <1>2, <1>3, <1>5, <1>7
  <1>9. r.slip = s /\ r.started = b
    OBVIOUS
  <1> HIDE DEF r, s, b
  <1>10. /\ Len(slip_log') = n + 1 /\ slip_log'[n + 1] = r
         /\ \A i \in 1 .. n : slip_log'[i] = slip_log[i]
    BY <1>2, <1>3
  <1>11. cooldown_start_ns' = clock => b
    BY DEF b
  <1>12. \/ r.slip > AbortTicks /\ r.started /\ consec_slip_count' = 0
         \/ /\ r.slip > SlipTicks /\ consec_slip_count + 1 >= ConsecSlips
            /\ r.started /\ consec_slip_count' = 0
         \/ /\ r.slip > SlipTicks /\ consec_slip_count + 1 < ConsecSlips
            /\ ~r.started /\ consec_slip_count' = consec_slip_count + 1
         \/ r.slip <= SlipTicks /\ ~r.started /\ consec_slip_count' = 0
    BY <1>4, <1>6, <1>9, <1>11, Zenon
  <1> QED
    BY <1>1, <1>2, <1>8, <1>9, <1>10, <1>12, Zenon

\* The old entries of the history are typed.
LEMMA LogEntries ==
    ASSUME TypeOK
    PROVE  /\ Len(slip_log) \in Nat /\ consec_slip_count \in Nat
           /\ \A i \in 1 .. Len(slip_log) : slip_log[i].slip \in Nat
  <1>1. \A i \in 1 .. Len(slip_log) : slip_log[i] \in FillRecord
    BY DEF TypeOK
  <1> QED
    BY <1>1 DEF TypeOK, RiskTypeOK, FillRecord

\* The counter keeps up with the history.
LEMMA SlipStep == TypeOK /\ SlipInv /\ [Next]_vars => SlipInv'
  <1> SUFFICES ASSUME TypeOK, SlipInv, [Next]_vars PROVE SlipInv'
    OBVIOUS
  <1>0. clock \in Nat /\ cooldown_start_ns \in Nat /\ 0 < clock
    BY RiskAssumption, ClientAssumption DEF TypeOK, RiskTypeOK, Time
  <1>1. ASSUME UNCHANGED <<consec_slip_count, cooldown_start_ns, slip_log>>,
               clock' \in {clock, clock + 1}
        PROVE  SlipInv'
    BY <1>0, <1>1 DEF SlipInv
  <1>2. ASSUME NEW l1 \in Price, NEW px \in Price, Fill(l1, px) PROVE SlipInv'
    <2> DEFINE n == Len(slip_log)
               c == consec_slip_count
               r == slip_log'[n + 1]
    <2>1. /\ Len(slip_log') = n + 1 /\ r.slip \in Nat
          /\ \A i \in 1 .. n : slip_log'[i] = slip_log[i]
          /\ cooldown_start_ns' < clock'
      BY <1>2, FillSlip, Zenon
    <2>2. \/ (r.slip <= SlipTicks \/ r.started) /\ c' = 0
          \/ /\ r.slip > SlipTicks /\ c + 1 < ConsecSlips
             /\ ~r.started /\ c' = c + 1
      BY <1>2, FillSlip, Zenon
    <2>3. n \in Nat /\ c \in Nat
      BY LogEntries
    <2> HIDE DEF r
    <2>4. CASE (r.slip <= SlipTicks \/ r.started) /\ c' = 0
      BY <2>1, <2>3, <2>4, RiskAssumption DEF SlipInv, r
    <2>5. CASE /\ r.slip > SlipTicks /\ c + 1 < ConsecSlips
               /\ ~r.started /\ c' = c + 1
      <3>1. c <= n /\ c' <= n + 1 /\ c' < ConsecSlips
        BY <2>3, <2>5 DEF SlipInv
      <3>2. ASSUME NEW j \in 1 .. n + 1, j > (n + 1) - c'
            PROVE  slip_log'[j].slip > SlipTicks /\ ~slip_log'[j].started
        <4>1. CASE j = n + 1
          BY <2>5, <4>1 DEF r
        <4>2. CASE j # n + 1
          <5>1. j \in 1 .. n /\ j > n - c
            BY <2>3, <2>5, <3>2, <4>2
          <5> QED
            BY <2>1, <5>1 DEF SlipInv
        <4> QED
          BY <4>1, <4>2
      <3>3. ASSUME c' < n + 1
            PROVE  LET k == (n + 1) - c' IN
                   slip_log'[k].slip <= SlipTicks \/ slip_log'[k].started
        <4>1. (n + 1) - c' = n - c /\ c < n /\ n - c \in 1 .. n
          BY <2>3, <2>5, <3>3
        <4> QED
          BY <2>1, <4>1 DEF SlipInv
      <3> QED
        BY <2>1, <3>1, <3>2, <3>3 DEF SlipInv
    <2> QED
      BY <2>2, <2>4, <2>5
  <1>3. CASE Reset
    BY <1>0, <1>3, RiskAssumption DEF Reset, reset_daily, SlipInv
  <1>4. CASE OrderSent
    BY <1>1, <1>4 DEF OrderSent, on_order_sent
  <1>5. CASE Reject
    BY <1>1, <1>5 DEF Reject, on_reject
  <1>6. CASE Tick
    BY <1>1, <1>6 DEF Tick, riskVars
  <1>7. CASE UNCHANGED vars
    BY <1>1, <1>7 DEF vars, riskVars
  <1> QED
    BY <1>2, <1>3, <1>4, <1>5, <1>6, <1>7 DEF Next

\* Nothing has been filled yet.
LEMMA SlipInit == Init => SlipInv /\ SlipRunStartsCooldown /\ NoSpuriousCooldown
  BY RiskAssumption
     DEF Init, RiskInit, SlipInv, SlipRunStartsCooldown, NoSpuriousCooldown

\* on_fill: consec_slip_count_ misses no run, whatever the thresholds, the prices and
\* the resets between the fills.
THEOREM SlipRunCaught == Spec => []SlipRunStartsCooldown
  <1>1. TypeOK /\ SlipInv /\ SlipRunStartsCooldown /\ [Next]_vars => SlipRunStartsCooldown'
    <2> SUFFICES ASSUME TypeOK, SlipInv, SlipRunStartsCooldown, [Next]_vars
                 PROVE  SlipRunStartsCooldown'
      OBVIOUS
    <2>1. ASSUME UNCHANGED slip_log PROVE SlipRunStartsCooldown'
      BY <2>1 DEF SlipRunStartsCooldown, SlipRun
    <2>2. ASSUME NEW l1 \in Price, NEW px \in Price, Fill(l1, px)
          PROVE  SlipRunStartsCooldown'
      <3> DEFINE n == Len(slip_log)
                 c == consec_slip_count
                 r == slip_log'[n + 1]
      <3>1. /\ Len(slip_log') = n + 1
            /\ \A i \in 1 .. n : slip_log'[i] = slip_log[i]
        BY <2>2, FillSlip, Zenon
      <3>2. r.slip > SlipTicks /\ ~r.started => c + 1 < ConsecSlips
        <4>1. \/ r.started
              \/ r.slip > SlipTicks /\ c + 1 < ConsecSlips
              \/ r.slip <= SlipTicks
          BY <2>2, FillSlip, Zenon
        <4>2. r.slip \in Nat
          BY <2>2, FillSlip, Zenon
        <4> HIDE DEF r
        <4> QED
          BY <4>1, <4>2, RiskAssumption
      <3>3. n \in Nat /\ c \in Nat /\ \A i \in 1 .. n : slip_log[i].slip \in Nat
        BY LogEntries
      <3> SUFFICES ASSUME NEW i \in 1 .. n + 1, i >= ConsecSlips,
                          \A j \in (i - ConsecSlips + 1) .. i : slip_log'[j].slip > SlipTicks
                   PROVE  \E j \in (i - ConsecSlips + 1) .. i : slip_log'[j].started
        BY <3>1 DEF SlipRunStartsCooldown, SlipRun
      <3>4. CASE i \in 1 .. n
        <4>1. \A j \in (i - ConsecSlips + 1) .. i : j \in 1 .. n
          BY <3>3, <3>4, RiskAssumption
        <4>2. SlipRun(i)
          BY <3>1, <4>1 DEF SlipRun
        <4>3. PICK j \in (i - ConsecSlips + 1) .. i : slip_log[j].started
          BY <3>4, <4>2 DEF SlipRunStartsCooldown
        <4> QED
          BY <3>1, <4>1, <4>3
      <3>5. CASE i = n + 1
        <4> SUFFICES ASSUME ~r.started
                     PROVE  \E j \in (i - ConsecSlips + 1) .. i : slip_log'[j].started
          BY <3>3, <3>5, RiskAssumption
        <4>1. c + 1 < ConsecSlips
          BY <3>2, <3>3, <3>5, RiskAssumption
        <4> DEFINE k == n - c
        <4>2. k \in (i - ConsecSlips + 1) .. i /\ k \in 1 .. n /\ c < n
          BY <3>3, <3>5, <4>1, RiskAssumption
        <4>3. slip_log[k].slip <= SlipTicks \/ slip_log[k].started
          BY <4>2 DEF SlipInv
        <4>4. slip_log'[k] = slip_log[k] /\ slip_log'[k].slip > SlipTicks
          BY <3>1, <4>2
        <4>5. slip_log[k].slip \in Nat
          BY <3>3, <4>2
        <4> HIDE DEF k
        <4>6. ~(slip_log[k].slip <= SlipTicks)
          BY <4>4, <4>5, RiskAssumption
        <4> QED
          BY <4>2, <4>3, <4>4, <4>6
      <3> QED
        BY <3>3, <3>4, <3>5
    <2>3. CASE Reset
      BY <2>3 DEF Reset, SlipRunStartsCooldown
    <2>4. CASE OrderSent
      BY <2>1, <2>4 DEF OrderSent
    <2>5. CASE Reject
      BY <2>1, <2>5 DEF Reject
    <2>6. CASE Tick
      BY <2>1, <2>6 DEF Tick
    <2>7. CASE UNCHANGED vars
      BY <2>1, <2>7 DEF vars
    <2> QED
      BY <2>2, <2>3, <2>4, <2>5, <2>6, <2>7 DEF Next
  <1> QED
    BY <1>1, SlipInit, SlipStep, TypeCorrect, PTL DEF Spec

\* on_fill: a cooldown starts at a fill beyond the abort threshold or at the end of a
\* full run, and at no other.
THEOREM CooldownHasReason == Spec => []NoSpuriousCooldown
  <1>1. TypeOK /\ SlipInv /\ NoSpuriousCooldown /\ [Next]_vars => NoSpuriousCooldown'
    <2> SUFFICES ASSUME TypeOK, SlipInv, NoSpuriousCooldown, [Next]_vars
                 PROVE  NoSpuriousCooldown'
      OBVIOUS
    <2>1. ASSUME UNCHANGED slip_log PROVE NoSpuriousCooldown'
      BY <2>1 DEF NoSpuriousCooldown, SlipRun
    <2>2. ASSUME NEW l1 \in Price, NEW px \in Price, Fill(l1, px)
          PROVE  NoSpuriousCooldown'
      <3> DEFINE n == Len(slip_log)
                 c == consec_slip_count
                 r == slip_log'[n + 1]
      <3>1. /\ Len(slip_log') = n + 1
            /\ \A i \in 1 .. n : slip_log'[i] = slip_log[i]
        BY <2>2, FillSlip, Zenon
      <3>2. r.started => \/ r.slip > AbortTicks
                         \/ r.slip > SlipTicks /\ c + 1 >= ConsecSlips
        BY <2>2, FillSlip, Zenon
      <3>3. n \in Nat /\ c \in Nat /\ c <= n /\ c < ConsecSlips
        BY LogEntries DEF SlipInv
      <3> SUFFICES ASSUME NEW i \in 1 .. n + 1, slip_log'[i].started,
                          ~(slip_log'[i].slip > AbortTicks)
                   PROVE  /\ i >= ConsecSlips
                          /\ \A j \in (i - ConsecSlips + 1) .. i :
                                slip_log'[j].slip > SlipTicks
        BY <3>1 DEF NoSpuriousCooldown, SlipRun
      <3>4. CASE i \in 1 .. n
        <4>1. SlipRun(i)
          BY <3>1, <3>4 DEF NoSpuriousCooldown
        <4>2. \A j \in (i - ConsecSlips + 1) .. i : j \in 1 .. n
          BY <3>3, <3>4, <4>1, RiskAssumption DEF SlipRun
        <4> QED
          BY <3>1, <4>1, <4>2 DEF SlipRun
      <3>5. CASE i = n + 1
        <4>1. r.slip > SlipTicks /\ c + 1 >= ConsecSlips
          BY <3>2, <3>5
        <4>2. c + 1 = ConsecSlips
          BY <3>3, <4>1, RiskAssumption
        <4>3. ASSUME NEW j \in (i - ConsecSlips + 1) .. i
              PROVE  slip_log'[j].slip > SlipTicks
          <5>1. CASE j = n + 1
            BY <4>1, <5>1
          <5>2. CASE j # n + 1
            <6>1. j \in 1 .. n /\ j > n - c
              BY <3>3, <3>5, <4>2, <5>2
            <6> QED
              BY <3>1, <6>1 DEF SlipInv
          <5> QED
            BY <5>1, <5>2
        <4> QED
          BY <3>3, <3>5, <4>2, <4>3
      <3> QED
        BY <3>3, <3>4, <3>5
    <2>3. CASE Reset
      BY <2>3 DEF Reset, NoSpuriousCooldown
    <2>4. CASE OrderSent
      BY <2>1, <2>4 DEF OrderSent
    <2>5. CASE Reject
      BY <2>1, <2>5 DEF Reject
    <2>6. CASE Tick
      BY <2>1, <2>6 DEF Tick
    <2>7. CASE UNCHANGED vars
      BY <2>1, <2>7 DEF vars
    <2> QED
      BY <2>2, <2>3, <2>4, <2>5, <2>6, <2>7 DEF Next
  <1> QED
    BY <1>1, SlipInit, SlipStep, TypeCorrect, PTL DEF Spec
=============================================================================
