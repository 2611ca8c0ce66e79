---------------------------- MODULE BacktestProofs ----------------------------
(***************************************************************************)
(* The backtest and the signal engine in it, for every window, bucket      *)
(* size, ring, percentile and threshold and every sequence of records.     *)
(*                                                                         *)
(* Three arguments, one per component.                                     *)
(*   - Settlement: a signal is told apart from every other by the record   *)
(*     that raised it, and leaves pending for exactly one outcome.         *)
(*   - Scores: the ring of CancelFactor keeps the cancellations of its     *)
(*     live buckets apart and exact; the z-score over the ring is then the *)
(*     z-score over the list of cancellations.                             *)
(*   - Signals: the samples kept are the last ones of all the samples,     *)
(*     back to the retention time; the quantile over them is exceeded by   *)
(*     the few that the percentile allows.                                 *)
(***************************************************************************)
EXTENDS Backtest, ArithProofs

-----------------------------------------------------------------------------
(* Signals, prices and counters *)

Signal        == [ts : Nat, l1 : Nat, dir : {"Buy", "Sell"}]
PendingSignal == [at : Nat, sig : Signal, sf_fired : BOOLEAN]
Point         == [ts : Nat, bid : Nat, ask : Nat]
Counters      == [total : Nat, buy : Nat, sell : Nat, wins : Nat, losses : Nat,
                  sf_wins : Nat, sf_total : Nat, move : Int]

\* Signals are told apart by the record that raised them, and are settled once.
SignalInv ==
    /\ rec \in Nat /\ now \in Nat
    /\ pending \subseteq PendingSignal /\ IsFiniteSet(pending) /\ IsFiniteSet(outcomes)
    /\ \A p \in pending : p.at <= rec /\ p.sig.ts <= now
    /\ \A o \in outcomes : o.signal.at \in Nat /\ o.signal.at <= rec /\ o.signal \notin pending

\* The inductive invariant of the counters.
SettleInv ==
    /\ SignalInv /\ price_history \in Seq(Point)
    /\ result \in Counters /\ TallyComplete

\* lower_bound stays inside the prices or just behind them.
LEMMA LowerBound ==
    ASSUME NEW s \in Seq(Point), NEW target
    PROVE  lower_bound(s, target) \in 1 .. Len(s) + 1
<1> DEFINE S == {i \in DOMAIN s : s[i].ts >= target} \cup {Len(s) + 1}
<1>1. Len(s) \in Nat /\ DOMAIN s = 1 .. Len(s)  BY SeqElement
<1>2. S \in SUBSET Nat /\ S # {} /\ S \subseteq 1 .. Len(s) + 1  BY <1>1
<1> HIDE DEF S
<1>3. Min(S) \in S  BY <1>2, MinMember
<1> QED  BY <1>2, <1>3 DEF lower_bound, S

\* The price history after a record.
LEMMA Points ==
    ASSUME SettleInv, NEW g \in Gap, NEW r \in Records, NEW delta, Record(g, r, delta)
    PROVE  price_history' \in Seq(Point)
<1> DEFINE e == PricePoint(now + g, r)
<1>1. now + g \in Nat /\ price_history \in Seq(Point)
  BY BacktestAssumption DEF SettleInv, SignalInv
<1>2. e \in Point  BY <1>1, BacktestAssumption DEF PricePoint, Point
<1>3. price_history' = IF Quoted(r) THEN Append(price_history, e) ELSE price_history
  BY DEF Record
<1> HIDE DEF e
<1> QED  BY <1>1, <1>2, <1>3

DueAt(t)   == {p \in pending : IsDue(p, t)}
JudgedAt(t) == Judged(DueAt(t), price_history')
Settle(t)  == {Outcome(p, price_history') : p \in DueAt(t)}

\* What one record settles: each due signal gets an outcome of its own, and one that is
\* not judged an outcome without a verdict.
LEMMA Settled ==
    ASSUME SettleInv, NEW t
    PROVE  LET due == DueAt(t)
               J == JudgedAt(t)
               new == Settle(t)
               none == {o \in new : o.verdict = "none"}
           IN /\ due \subseteq pending /\ J \subseteq due
              /\ IsFiniteSet(due) /\ IsFiniteSet(pending \ due) /\ IsFiniteSet(J)
              /\ Cardinality(J) \in Nat /\ Cardinality(due \ J) \in Nat
              /\ Cardinality(pending \ due) \in Nat
              /\ Cardinality(pending)
                    = Cardinality(J) + Cardinality(due \ J) + Cardinality(pending \ due)
              /\ IsFiniteSet(new) /\ \A o \in new : o.signal \in due
              /\ IsFiniteSet(none) /\ Cardinality(none) = Cardinality(due \ J)
              /\ new \cap outcomes = {}
<1> DEFINE due == DueAt(t)
           J == JudgedAt(t)
           O(p) == Outcome(p, price_history')
           new == {O(p) : p \in due}
           none == {o \in new : o.verdict = "none"}
           lost == due \ J
<1>1. SignalInv /\ IsFiniteSet(pending)  BY DEF SettleInv, SignalInv
<1>2. due \in SUBSET pending /\ J \in SUBSET due  BY DEF DueAt, JudgedAt, Judged
<1>3. \A p \in due : p \in J <=> Verdict(p, price_history') # "none"
  BY DEF JudgedAt, Judged
<1>4. \A p : O(p).signal = p /\ O(p).verdict = Verdict(p, price_history')  BY DEF Outcome
<1> HIDE DEF due, J, O
<1>5. /\ IsFiniteSet(due) /\ IsFiniteSet(pending \ due)
      /\ Cardinality(due) \in Nat /\ Cardinality(pending \ due) \in Nat
      /\ Cardinality(pending) = Cardinality(due) + Cardinality(pending \ due)
  BY <1>1, <1>2, CardSplit
<1>6. /\ IsFiniteSet(J) /\ IsFiniteSet(lost)
      /\ Cardinality(J) \in Nat /\ Cardinality(lost) \in Nat
      /\ Cardinality(due) = Cardinality(J) + Cardinality(lost)
  BY <1>2, <1>5, CardSplit
<1>7. IsFiniteSet(new) /\ \A o \in new : o.signal \in due
  <2>1. IsFiniteSet(new)
    <3> DEFINE f == [p \in due |-> O(p)]
    <3>1. f \in [due -> new]  OBVIOUS
    <3>2. \A a, b \in due : f[a] = f[b] => a = b  BY <1>4
    <3>3. \A y \in new : \E x \in due : f[x] = y  OBVIOUS
    <3> HIDE DEF f, new
    <3> QED  BY <1>5, <3>1, <3>2, <3>3, SameSize
  <2> QED  BY <1>4, <2>1
<1>8. IsFiniteSet(none) /\ Cardinality(none) = Cardinality(lost)
  <2> DEFINE f == [p \in lost |-> O(p)]
  <2>1. f \in [lost -> none]  BY <1>3, <1>4
  <2>2. \A a, b \in lost : f[a] = f[b] => a = b  BY <1>4
  <2>3. \A y \in none : \E x \in lost : f[x] = y  BY <1>3, <1>4
  <2> HIDE DEF f, none, lost
  <2> QED  BY <1>6, <2>1, <2>2, <2>3, SameSize
<1>9. new \cap outcomes = {}
  <2> SUFFICES ASSUME NEW o \in new, o \in outcomes PROVE FALSE  OBVIOUS
  <2>1. o.signal \in pending  BY <1>2, <1>7
  <2> QED  BY <1>1, <2>1 DEF SignalInv
<1>10. new = Settle(t)  BY DEF Settle, O, due
<1> HIDE DEF new
<1>11. none = {o \in Settle(t) : o.verdict = "none"}  BY <1>10
<1> QED  BY <1>2, <1>5, <1>6, <1>7, <1>8, <1>9, <1>10, <1>11 DEF due, J

\* What one record adds: at most one signal.
LEMMA NewSignal ==
    ASSUME SignalInv, NEW g \in Gap, NEW r \in Records, NEW delta, Record(g, r, delta)
    PROVE  /\ direction' \in {"Buy", "Sell", "None"}
           /\ direction' # "None" =>
                 LET p == [at |-> rec', sig |-> last_signal', sf_fired |-> sf_fired']
                 IN p \in PendingSignal /\ p.at = rec + 1 /\ p.sig.ts = now + g /\ p \notin pending
<1>1. direction' \in {"Buy", "Sell", "None"}  BY DEF Record, OnEvent, Decide
<1>2. ASSUME direction' # "None"
      PROVE  LET p == [at |-> rec', sig |-> last_signal', sf_fired |-> sf_fired']
             IN p \in PendingSignal /\ p.at = rec + 1 /\ p.sig.ts = now + g /\ p \notin pending
  <2> DEFINE t == now + g
             l1 == IF direction' = "Buy" THEN r.ask ELSE r.bid
  <2>1. rec' = rec + 1 /\ rec \in Nat /\ t \in Nat
    BY BacktestAssumption DEF Record, SignalInv
  <2>2. l1 \in Nat  BY BacktestAssumption
  <2>3. last_signal' = [ts |-> t, l1 |-> l1, dir |-> direction']
    BY <1>2 DEF Record, OnEvent
  <2>4. sf_fired' \in BOOLEAN  BY DEF Record
  <2> HIDE DEF t, l1
  <2>5. last_signal' \in Signal /\ last_signal'.ts = t  BY <1>1, <1>2, <2>1, <2>2, <2>3 DEF Signal
  <2> DEFINE p == [at |-> rec', sig |-> last_signal', sf_fired |-> sf_fired']
  <2>6. p \in PendingSignal  BY <2>1, <2>4, <2>5 DEF PendingSignal
  <2>7. p.at = rec + 1 /\ p.sig.ts = t  BY <2>1, <2>5
  <2> HIDE DEF p
  <2>8. p \notin pending  BY <2>1, <2>7 DEF SignalInv
  <2> QED  BY <2>6, <2>7, <2>8 DEF p, t
<1> QED  BY <1>1, <1>2

LEMMA SignalStep ==
    ASSUME SettleInv, NEW g \in Gap, NEW r \in Records, NEW delta \in Int, Record(g, r, delta)
    PROVE  SignalInv'
<1> DEFINE t == now + g
           due == DueAt(t)
           new == Settle(t)
           p == [at |-> rec', sig |-> last_signal', sf_fired |-> sf_fired']
           add == IF direction' = "None" THEN {} ELSE {p}
<1>1. SignalInv  BY DEF SettleInv
<1>2. /\ pending' = (pending \ due) \cup add /\ outcomes' = outcomes \cup new
      /\ rec' = rec + 1 /\ now' = t
  BY DEF Record, OnEvent, DueAt, Settle
<1>3. direction' # "None" =>
          p \in PendingSignal /\ p.at = rec + 1 /\ p.sig.ts = t /\ p \notin pending
  BY <1>1, NewSignal
<1>4. /\ IsFiniteSet(pending \ due) /\ IsFiniteSet(new)
      /\ \A o \in new : o.signal \in due
  BY Settled
<1>5. IsFiniteSet(pending') /\ IsFiniteSet(outcomes')
  <2>1. IsFiniteSet(add)  BY FS_EmptySet, FS_Singleton
  <2>2. IsFiniteSet(outcomes)  BY <1>1 DEF SignalInv
  <2> HIDE DEF add, new, due
  <2> QED  BY <1>2, <1>4, <2>1, <2>2, FS_Union
<1>6. /\ rec \in Nat /\ now \in Nat /\ pending \subseteq PendingSignal
      /\ \A q \in pending : q.at <= rec /\ q.sig.ts <= now
      /\ \A o \in outcomes : o.signal.at \in Nat /\ o.signal.at <= rec /\ o.signal \notin pending
  BY <1>1 DEF SignalInv
<1>7. \A q \in pending : q.at \in Nat /\ q.sig.ts \in Nat
  BY <1>6 DEF PendingSignal, Signal
<1>8. t \in Nat /\ now <= t /\ rec' \in Nat  BY <1>2, <1>6, BacktestAssumption
<1>10. due \subseteq pending  BY DEF DueAt
<1>11. \A q \in add : q = p /\ direction' # "None"  OBVIOUS
<1> HIDE DEF t, due, new, p, add
<1>12. pending' \subseteq PendingSignal
  BY <1>2, <1>3, <1>6, <1>11
<1>13. \A q \in pending' : q.at <= rec' /\ q.sig.ts <= now'
  <2> SUFFICES ASSUME NEW q \in pending' PROVE q.at <= rec' /\ q.sig.ts <= t  BY <1>2
  <2>1. CASE q \in pending  BY <1>2, <1>6, <1>7, <1>8, <2>1
  <2>2. CASE q \in add  BY <1>2, <1>3, <1>6, <1>8, <1>11, <2>2
  <2> QED  BY <1>2, <2>1, <2>2
<1>14. \A o \in outcomes' : o.signal.at \in Nat /\ o.signal.at <= rec' /\ o.signal \notin pending'
  <2> SUFFICES ASSUME NEW o \in outcomes'
               PROVE  o.signal.at \in Nat /\ o.signal.at <= rec' /\ o.signal \notin pending'
    OBVIOUS
  <2>1. o.signal.at \in Nat /\ o.signal.at <= rec /\ o.signal \notin pending \ due
    <3>1. CASE o \in outcomes  BY <1>6, <3>1
    <3>2. CASE o \in new  BY <1>4, <1>6, <1>7, <1>10, <3>2
    <3> QED  BY <1>2, <3>1, <3>2
  <2>2. o.signal \notin add  BY <1>3, <1>6, <1>11, <2>1
  <2> QED  BY <1>2, <1>6, <2>1, <2>2
<1> QED  BY <1>2, <1>5, <1>8, <1>12, <1>13, <1>14 DEF SignalInv

\* Counters stay counters.
LEMMA SetCounters ==
    ASSUME NEW c \in Counters, NEW a \in Int, NEW b1 \in Nat, NEW b2 \in Nat, NEW b3 \in Nat,
           NEW b4 \in Nat
    PROVE  /\ [c EXCEPT !.move = a, !.wins = b1, !.losses = b2, !.sf_total = b3, !.sf_wins = b4]
                \in Counters
           /\ [c EXCEPT !.total = b1, !.buy = b2, !.sell = b3] \in Counters
<1>1. [c EXCEPT !.move = a] \in Counters  BY DEF Counters
<1>2. \A d \in Counters : [d EXCEPT !.wins = b1, !.losses = b2] \in Counters  BY DEF Counters
<1>3. \A d \in Counters : [d EXCEPT !.sf_total = b3, !.sf_wins = b4] \in Counters
  BY DEF Counters
<1>4. [c EXCEPT !.move = a, !.wins = b1, !.losses = b2, !.sf_total = b3, !.sf_wins = b4] \in Counters
  BY <1>1, <1>2, <1>3
<1>5. [c EXCEPT !.total = b1, !.buy = b2, !.sell = b3] \in Counters  BY DEF Counters
<1> QED  BY <1>4, <1>5

\* What the due signals do to the counters.
LEMMA Counted ==
    ASSUME SettleInv, NEW g \in Gap, NEW r \in Records, NEW delta \in Int, Record(g, r, delta)
    PROVE  LET due == DueAt(now + g)
               e == Evaluate(due, price_history')
           IN /\ e \in Counters
              /\ e.total = result.total /\ e.buy = result.buy /\ e.sell = result.sell
              /\ e.wins + e.losses = result.wins + result.losses + Cardinality(JudgedAt(now + g))
<1> DEFINE ph == price_history'
           due == DueAt(now + g)
           J == Judged(due, ph)
           W == Won(due, ph)
           sf == {p \in J : p.sf_fired}
           moves == [p \in J |-> Move(p.sig, ph[Hit(p, ph)])]
           sum == SumFunctionOnSet(moves, J)
           e == Evaluate(due, ph)
<1>1. result \in Counters /\ SignalInv /\ ph \in Seq(Point)  BY Points DEF SettleInv
<1>2. IsFiniteSet(J) /\ due \subseteq pending /\ J \subseteq due  BY Settled DEF JudgedAt
<1>3. W \in SUBSET J /\ sf \in SUBSET J  BY DEF Won, Judged
<1>5. /\ Cardinality(W) \in Nat /\ Cardinality(J \ W) \in Nat
      /\ Cardinality(J) = Cardinality(W) + Cardinality(J \ W)
      /\ Cardinality(sf) \in Nat
  <2> HIDE DEF J, W, sf
  <2> QED  BY <1>2, <1>3, CardSplit
<1>6. Cardinality(sf \cap W) \in Nat
  <2> HIDE DEF J, W, sf
  <2>1. sf \cap W \in SUBSET J  BY <1>3
  <2> QED  BY <1>2, <2>1, CardSplit
<1>7. \A p \in J : moves[p] \in Int
  <2> SUFFICES ASSUME NEW p \in J PROVE Move(p.sig, ph[Hit(p, ph)]) \in Int  OBVIOUS
  <2>1. p.sig \in Signal  BY <1>1, <1>2 DEF SignalInv, PendingSignal
  <2>2. ~(Hit(p, ph) > Len(ph))  BY DEF Judged, Verdict
  <2> HIDE DEF ph
  <2>3. Hit(p, ph) \in 1 .. Len(ph) + 1  BY <1>1, LowerBound DEF Hit
  <2>4. Len(ph) \in Nat  BY <1>1, SeqElement
  <2>5. Hit(p, ph) \in 1 .. Len(ph)  BY <2>2, <2>3, <2>4
  <2>6. ph[Hit(p, ph)] \in Point  BY <1>1, <2>5, SeqElement
  <2> QED  BY <2>1, <2>6 DEF Move, Signal, Point
<1>8. sum \in Int
  <2> HIDE DEF J, moves
  <2> QED  BY <1>2, <1>7, SumInt
<1>9. e = [result EXCEPT !.move = result.move + sum,
                         !.wins = result.wins + Cardinality(W),
                         !.losses = result.losses + Cardinality(J \ W),
                         !.sf_total = result.sf_total + Cardinality(sf),
                         !.sf_wins = result.sf_wins + Cardinality(sf \cap W)]
  BY DEF Evaluate
<1> HIDE DEF e, sum, W, J, sf, due
<1>10. e \in Counters
  <2>1. /\ result.move + sum \in Int
        /\ result.wins + Cardinality(W) \in Nat /\ result.losses + Cardinality(J \ W) \in Nat
        /\ result.sf_total + Cardinality(sf) \in Nat
        /\ result.sf_wins + Cardinality(sf \cap W) \in Nat
    <3>1. /\ result.move \in Int /\ result.wins \in Nat /\ result.losses \in Nat
          /\ result.sf_total \in Nat /\ result.sf_wins \in Nat
      BY <1>1 DEF Counters
    <3> QED  BY <1>5, <1>6, <1>8, <3>1
  <2> QED  BY <1>1, <1>9, <2>1, SetCounters
<1>11. /\ e.total = result.total /\ e.buy = result.buy /\ e.sell = result.sell
       /\ e.wins = result.wins + Cardinality(W) /\ e.losses = result.losses + Cardinality(J \ W)
  BY <1>1, <1>9 DEF Counters
<1>12. result.wins \in Nat /\ result.losses \in Nat  BY <1>1 DEF Counters
<1>13. e.wins + e.losses = result.wins + result.losses + Cardinality(J)
  BY <1>5, <1>11, <1>12
<1> QED  BY <1>10, <1>11, <1>13 DEF e, J, due, JudgedAt

\* What becomes of the outcomes without a price.
LEMMA DroppedStep ==
    ASSUME SettleInv, NEW g \in Gap, NEW r \in Records, NEW delta \in Int, Record(g, r, delta)
    PROVE  /\ Cardinality(Dropped) \in Nat
           /\ Cardinality(Dropped') = Cardinality(Dropped)
                   + Cardinality(DueAt(now + g) \ JudgedAt(now + g))
<1> DEFINE new == Settle(now + g)
           none == {o \in new : o.verdict = "none"}
<1>1. /\ IsFiniteSet(none) /\ Cardinality(none) = Cardinality(DueAt(now + g) \ JudgedAt(now + g))
      /\ Cardinality(none) \in Nat /\ new \cap outcomes = {}
  BY Settled
<1>2. outcomes' = outcomes \cup new  BY DEF Record, Settle, DueAt
<1>3. IsFiniteSet(Dropped) /\ Cardinality(Dropped) \in Nat
  <2>1. Dropped \in SUBSET outcomes /\ IsFiniteSet(outcomes)
    BY DEF Dropped, SettleInv, SignalInv
  <2> QED  BY <2>1, CardSplit
<1> HIDE DEF new
<1>4. Dropped' = Dropped \cup none /\ Dropped \cap none = {}  BY <1>1, <1>2 DEF Dropped
<1> HIDE DEF none
<1>5. Cardinality(Dropped \cup none)
        = Cardinality(Dropped) + Cardinality(none) - Cardinality(Dropped \cap none)
  BY <1>1, <1>3, FS_Union
<1>6. Cardinality(Dropped \cap none) = 0  BY <1>4, FS_EmptySet
<1> QED  BY <1>1, <1>3, <1>4, <1>5, <1>6

LEMMA TallyStep ==
    ASSUME SettleInv, NEW g \in Gap, NEW r \in Records, NEW delta \in Int, Record(g, r, delta)
    PROVE  result' \in Counters /\ TallyComplete'
<1> DEFINE due == DueAt(now + g)
           e == Evaluate(due, price_history')
           p == [at |-> rec', sig |-> last_signal', sf_fired |-> sf_fired']
           add == IF direction' = "None" THEN {} ELSE {p}
           one == IF direction' = "None" THEN 0 ELSE 1
           old == pending \ due
           J == JudgedAt(now + g)
           lost == due \ J
<1>1. SignalInv /\ result \in Counters /\ TallyComplete  BY DEF SettleInv
<1>2. direction' \in {"Buy", "Sell", "None"} /\ (direction' # "None" => p \notin pending)
  BY <1>1, NewSignal
<1>3. /\ e \in Counters
      /\ e.total = result.total /\ e.buy = result.buy /\ e.sell = result.sell
      /\ e.wins + e.losses = result.wins + result.losses + Cardinality(J)
  BY Counted
<1>4. result' = [e EXCEPT !.total = e.total + one,
                          !.buy   = e.buy + (IF direction' = "Buy"  THEN 1 ELSE 0),
                          !.sell  = e.sell + (IF direction' = "Sell" THEN 1 ELSE 0)]
  <2>1. price_history' = (IF Quoted(r) THEN Append(price_history, PricePoint(now + g, r))
                                       ELSE price_history)
    BY DEF Record
  <2> QED  BY <2>1 DEF Record, DueAt
<1>5. pending' = old \cup add  BY DEF Record, DueAt
<1>6. /\ IsFiniteSet(old) /\ Cardinality(J) \in Nat /\ Cardinality(lost) \in Nat
      /\ Cardinality(pending) = Cardinality(J) + Cardinality(lost) + Cardinality(old)
  BY Settled
<1>7. Cardinality(old) \in Nat  BY <1>6, FS_CardinalityType
<1>8. Cardinality(pending') = Cardinality(old) + one
  <2> HIDE DEF p, old
  <2>1. CASE direction' = "None"
    <3>1. pending' = old  BY <1>5, <2>1
    <3> QED  BY <1>7, <2>1, <3>1
  <2>2. CASE direction' # "None"
    <3>1. pending' = old \cup {p} /\ p \notin old  BY <1>2, <1>5, <2>2 DEF old
    <3> QED  BY <1>6, <2>2, <3>1, FS_AddElement
  <2> QED  BY <2>1, <2>2
<1>9. /\ Cardinality(Dropped) \in Nat
      /\ Cardinality(Dropped') = Cardinality(Dropped) + Cardinality(lost)
  BY DroppedStep
<1> HIDE DEF due, e, p, add, old, J, lost
<1>10. result' \in Counters
  <2>1. /\ e.total + one \in Nat
        /\ e.buy + (IF direction' = "Buy"  THEN 1 ELSE 0) \in Nat
        /\ e.sell + (IF direction' = "Sell" THEN 1 ELSE 0) \in Nat
    BY <1>3 DEF Counters
  <2> QED  BY <1>3, <1>4, <2>1, SetCounters
<1>11. /\ result'.total = e.total + one /\ result'.wins = e.wins /\ result'.losses = e.losses
       /\ result'.buy + result'.sell = e.buy + e.sell + one
  BY <1>2, <1>3, <1>4 DEF Counters
<1>12. /\ e.total \in Nat /\ e.buy \in Nat /\ e.sell \in Nat /\ e.wins \in Nat /\ e.losses \in Nat
       /\ result.wins \in Nat /\ result.losses \in Nat /\ result.total \in Nat
  BY <1>1, <1>3 DEF Counters
<1>13. /\ result.total = result.buy + result.sell
       /\ result.total = result.wins + result.losses + Cardinality(pending) + Cardinality(Dropped)
  BY <1>1 DEF TallyComplete
<1>14. result'.total = result'.buy + result'.sell
  BY <1>3, <1>11, <1>12, <1>13
<1>15. result'.total = result'.wins + result'.losses + Cardinality(pending') + Cardinality(Dropped')
  BY <1>3, <1>6, <1>7, <1>8, <1>9, <1>11, <1>12, <1>13
<1> QED  BY <1>10, <1>14, <1>15 DEF TallyComplete

LEMMA SettleInit == Init => SettleInv
<1> SUFFICES ASSUME Init PROVE SettleInv  OBVIOUS
<1>1. /\ rec = 0 /\ now = 0 /\ pending = {} /\ outcomes = {} /\ price_history = <<>>
      /\ result = [total |-> 0, buy |-> 0, sell |-> 0, wins |-> 0, losses |-> 0,
                   sf_wins |-> 0, sf_total |-> 0, move |-> 0]
  BY DEF Init, SignalInit
<1>2. Dropped = {}  BY <1>1 DEF Dropped
<1>3. Cardinality(pending) = 0 /\ Cardinality(Dropped) = 0 /\ IsFiniteSet({})
  BY <1>1, <1>2, FS_EmptySet
<1>4. SignalInv /\ price_history \in Seq(Point)  BY <1>1, <1>3 DEF SignalInv
<1>5. result \in Counters  BY <1>1 DEF Counters
<1>6. TallyComplete  BY <1>1, <1>3 DEF TallyComplete
<1> QED  BY <1>4, <1>5, <1>6 DEF SettleInv

LEMMA SettleStep == SettleInv /\ [Next]_vars => SettleInv'
<1> SUFFICES ASSUME SettleInv, [Next]_vars PROVE SettleInv'  OBVIOUS
<1>1. CASE Next
  <2>1. PICK g \in Gap, r \in Records, delta \in DeltaValue : Record(g, r, delta)
    BY <1>1 DEF Next
  <2>2. delta \in Int  BY SignalAssumption
  <2> QED  BY <2>1, <2>2, SignalStep, TallyStep, Points DEF SettleInv
<1>2. CASE UNCHANGED vars
  <2>1. /\ rec' = rec /\ now' = now /\ pending' = pending /\ outcomes' = outcomes
        /\ price_history' = price_history /\ result' = result
    BY <1>2 DEF vars, signalVars
  <2>2. Dropped' = Dropped  BY <2>1 DEF Dropped
  <2> QED  BY <2>1, <2>2 DEF SettleInv, SignalInv, TallyComplete
<1> QED  BY <1>1, <1>2

\* Every signal ends in exactly one place: won, lost, pending or dropped for want of a
\* price.
THEOREM TallyIsComplete == Spec => []TallyComplete
<1>1. SettleInv => TallyComplete  BY DEF SettleInv
<1> QED  BY SettleInit, SettleStep, <1>1, PTL DEF Spec

-----------------------------------------------------------------------------
(* The ring of the cancel factor *)

Span(i) == i * BucketSize

LEMMA SpanFacts ==
    /\ Span(0) = 0 /\ Span(1) = BucketSize
    /\ \A i \in Nat : Span(i) \in Nat
    /\ \A i, j \in Nat : Span(i + j) = Span(i) + Span(j)
    /\ \A i, j \in Nat : i < j => Span(i) + BucketSize <= Span(j)
  BY CancelAssumption, Spans DEF Span

LEMMA SpanNat == ASSUME NEW i \in Nat PROVE Span(i) \in Nat
  BY SpanFacts

LEMMA SpanOrder ==
    ASSUME NEW i \in Nat, NEW j \in Nat
    PROVE  /\ i <= j => Span(i) <= Span(j)
           /\ i < j => Span(i) + BucketSize <= Span(j)
           /\ i <= j => j - i \in Nat /\ Span(j) = Span(i) + Span(j - i)
<1>1. i < j => Span(i) + BucketSize <= Span(j)  BY SpanFacts
<1>2. Span(i) \in Nat /\ Span(j) \in Nat  BY SpanNat
<1>3. i = j => Span(i) = Span(j)  OBVIOUS
<1>4. ASSUME i <= j PROVE j - i \in Nat /\ Span(j) = Span(i) + Span(j - i)
  <2>1. j - i \in Nat /\ i + (j - i) = j  BY <1>4
  <2>2. Span(i + (j - i)) = Span(i) + Span(j - i)  BY <2>1, SpanFacts
  <2> QED  BY <2>1, <2>2
<1> QED  BY <1>1, <1>2, <1>3, <1>4, CancelAssumption

\* A window is m buckets, and one more than these fit the ring.
LEMMA WindowSpan ==
    LET m == Window \div BucketSize IN m \in Nat \ {0} /\ Window = Span(m) /\ m + 1 <= Ring
<1> DEFINE m == Window \div BucketSize
<1>1. m \in Nat /\ Window = BucketSize * m  BY CancelAssumption, DivMod
<1>2. m + 1 <= Ring  BY CancelAssumption
<1> HIDE DEF m
<1>3. Window = Span(m)  BY <1>1, CancelAssumption DEF Span
<1>4. m # 0  BY <1>3, SpanFacts, CancelAssumption
<1> QED  BY <1>1, <1>2, <1>3, <1>4 DEF m

ZValue       == [num : Int, den : Nat \ {0}]
CancelBucket == [ts : Nat, cancels : [Side -> Nat]]
ZSample      == [ts : Nat, z : ZValue]
Factor       == [buckets : [Slot -> CancelBucket], head : Slot, count : 0 .. Ring,
                 z : [Side -> ZValue], recent : Seq(ZSample)]
Cancel       == [t : Nat, b : Nat, side : Side]

Live(f) == 0 .. f.count - 1

\* The cancellations of a side in the bucket i places behind a head of time h.
Those(cs, side, i, h) ==
    {k \in DOMAIN cs : cs[k].side = side /\ cs[k].b + Span(i) = h}

\* The live buckets follow one another without a gap.
Tiled(f) == \A i \in Live(f) : Bucket(f, i).ts + Span(i) = HeadTs(f)

\* A live bucket has counted its cancellations.
Exact(f, cs) ==
    \A i \in Live(f), side \in Side :
        Bucket(f, i).cancels[side] = Cardinality(Those(cs, side, i, HeadTs(f)))

\* The buckets reach back to the first event, as far as the ring does.
Reaches(f, start) ==
    f.count > 0 => /\ start + Span(f.count - 1) <= HeadTs(f)
                   /\ f.count < Ring => start + Span(f.count - 1) = HeadTs(f)

RingInv(f, cs, start) ==
    /\ f \in Factor /\ cs \in Seq(Cancel) /\ start \in Nat
    /\ Tiled(f) /\ Exact(f, cs) /\ Reaches(f, start)
    /\ \A k \in DOMAIN cs : f.count > 0 /\ cs[k].b <= HeadTs(f)

LEMMA RingSize == Ring \in Nat \ {0} /\ 0 \in Slot
  BY CancelAssumption DEF Slot

LEMMA FactorFacts ==
    ASSUME NEW f \in Factor
    PROVE  /\ f.buckets \in [Slot -> CancelBucket] /\ f.head \in Slot
           /\ f.count \in Nat /\ f.count <= Ring
           /\ HeadTs(f) \in Nat
           /\ Live(f) \subseteq Slot /\ Live(f) \subseteq Nat
           /\ \A i \in Slot : /\ Bucket(f, i) \in CancelBucket /\ Bucket(f, i).ts \in Nat
                              /\ Bucket(f, i) = f.buckets[RingBack(Ring, f.head, i)]
           /\ Bucket(f, 0) = f.buckets[f.head]
<1>1. f.buckets \in [Slot -> CancelBucket] /\ f.head \in Slot /\ f.count \in 0 .. Ring
  BY DEF Factor
<1>2. HeadTs(f) \in Nat  BY <1>1 DEF HeadTs, CancelBucket
<1>3. Live(f) \subseteq Slot /\ Live(f) \subseteq Nat  BY <1>1, RingSize DEF Live, Slot
<1>4. \A i : Bucket(f, i) = f.buckets[RingBack(Ring, f.head, i)]  BY DEF Bucket, RingBack
<1>5. /\ RingBack(Ring, f.head, 0) = f.head
      /\ \A i \in Slot : RingBack(Ring, f.head, i) \in Slot
  BY <1>1, RingSize, RingHead DEF Slot
<1>6. \A i \in Slot : Bucket(f, i) \in CancelBucket  BY <1>1, <1>4, <1>5
<1>7. \A i \in Slot : Bucket(f, i).ts \in Nat  BY <1>6 DEF CancelBucket
<1> QED  BY <1>1, <1>2, <1>3, <1>4, <1>5, <1>6, <1>7, RingSize

LEMMA CancelFacts ==
    ASSUME NEW cs \in Seq(Cancel)
    PROVE  /\ Len(cs) \in Nat /\ DOMAIN cs = 1 .. Len(cs)
           /\ IsFiniteSet(DOMAIN cs)
           /\ \A k \in DOMAIN cs : cs[k].b \in Nat /\ cs[k].t \in Nat /\ cs[k].side \in Side
<1>1. /\ Len(cs) \in Nat /\ DOMAIN cs = 1 .. Len(cs)
      /\ \A k \in 1 .. Len(cs) : cs[k] \in Cancel
  BY SeqElement
<1>2. IsFiniteSet(DOMAIN cs)  BY <1>1, FS_Interval
<1> QED  BY <1>1, <1>2 DEF Cancel

\* What Open leaves in each place, counted from the new head.
LEMMA OpenPlaces ==
    ASSUME NEW f \in Factor, NEW k \in 0 .. Ring
    PROVE  LET q == Open(f, k) IN
           /\ q \in Factor
           /\ q.count = IF f.count + k <= Ring THEN f.count + k ELSE Ring
           /\ q.z = f.z /\ q.recent = f.recent
           /\ \A i \in Slot : i < k => Bucket(q, i) = Fresh(HeadTs(f) + Span(k - i))
           /\ \A i \in Slot : i >= k => i - k \in Slot /\ Bucket(q, i) = Bucket(f, i - k)
<1> DEFINE q == Open(f, k)
           h == HeadTs(f)
           A(s) == RingAhead(Ring, f.head, s)
           new == [s \in Slot |-> IF A(s) <= k THEN Fresh(h + Span(A(s))) ELSE f.buckets[s]]
           g == RingStep(Ring, f.head, k)
           c == Min({f.count + k, Ring})
<1>1. /\ f.buckets \in [Slot -> CancelBucket] /\ f.head \in Slot /\ f.count \in Nat
      /\ f.count <= Ring /\ h \in Nat /\ k \in Nat /\ Ring \in Nat \ {0}
  BY FactorFacts, RingSize
<1>0. Ring \in Nat \ {0} /\ f.head \in 0 .. Ring - 1  BY <1>1 DEF Slot
<1>10. \A s \in Slot : A(s) \in Nat
  <2> SUFFICES ASSUME NEW s \in Slot PROVE A(s) \in Nat  OBVIOUS
  <2>1. s \in 0 .. Ring - 1  BY DEF Slot
  <2>2. A(s) = IF s <= f.head THEN s + Ring - f.head ELSE s - f.head
    BY <1>0, <2>1, RingAheadPlace
  <2> HIDE DEF A
  <2> QED  BY <1>0, <2>1, <2>2
<1>2. q = [f EXCEPT !.buckets = new, !.head = g, !.count = c]
  BY DEF Open, RingAhead, RingStep, Span
<1>3. c = IF f.count + k <= Ring THEN f.count + k ELSE Ring  BY <1>1, MinOfTwo
<1>4. \A i \in Slot : LET s == RingBack(Ring, g, i) IN
          /\ g \in Slot /\ s \in Slot
          /\ i < k => A(s) = k - i
          /\ i >= k => i - k \in Slot /\ A(s) > k /\ s = RingBack(Ring, f.head, i - k)
  <2> SUFFICES ASSUME NEW i \in Slot
               PROVE  LET s == RingBack(Ring, g, i) IN
                      /\ g \in Slot /\ s \in Slot
                      /\ i < k => A(s) = k - i
                      /\ i >= k => i - k \in Slot /\ A(s) > k /\ s = RingBack(Ring, f.head, i - k)
    OBVIOUS
  <2>1. i \in 0 .. Ring - 1  BY DEF Slot
  <2> QED  BY <1>0, <2>1, RingMove DEF Slot
<1>5. g \in Slot  BY <1>4, RingSize
<1>6. new \in [Slot -> CancelBucket]
  <2> SUFFICES ASSUME NEW s \in Slot
               PROVE  (IF A(s) <= k THEN Fresh(h + Span(A(s))) ELSE f.buckets[s]) \in CancelBucket
    OBVIOUS
  <2>1. A(s) \in Nat  BY <1>10
  <2>2. Span(A(s)) \in Nat  BY <2>1, SpanNat
  <2> HIDE DEF h, A
  <2>3. h + Span(A(s)) \in Nat  BY <1>1, <2>2
  <2>4. Fresh(h + Span(A(s))) \in CancelBucket  BY <2>3 DEF Fresh, CancelBucket
  <2> QED  BY <1>1, <2>4
<1> HIDE DEF q, c, new, g
<1>7. /\ q.buckets = new /\ q.head = g /\ q.count = c /\ q.z = f.z /\ q.recent = f.recent
  BY <1>2 DEF Factor
<1>8. q \in Factor
  <2>1. c \in 0 .. Ring  BY <1>1, <1>3
  <2> QED  BY <1>2, <1>5, <1>6, <2>1 DEF Factor
<1>9. ASSUME NEW i \in Slot
      PROVE  /\ i < k => Bucket(q, i) = Fresh(h + Span(k - i))
             /\ i >= k => i - k \in Slot /\ Bucket(q, i) = Bucket(f, i - k)
  <2> DEFINE s == RingBack(Ring, g, i)
  <2>1. /\ s \in Slot /\ (i < k => A(s) = k - i)
        /\ i >= k => i - k \in Slot /\ A(s) > k /\ s = RingBack(Ring, f.head, i - k)
    BY <1>4
  <2>2. Bucket(q, i) = new[s]  BY <1>7, <1>8, FactorFacts
  <2>3. A(s) \in Int  BY <1>10, <2>1
  <2> HIDE DEF s, A, h
  <2>4. new[s] = IF A(s) <= k THEN Fresh(h + Span(A(s))) ELSE f.buckets[s]  BY <2>1 DEF new
  <2>5. ASSUME i < k PROVE Bucket(q, i) = Fresh(h + Span(k - i))
    <3>1. A(s) = k - i /\ k - i <= k  BY <1>1, <2>1, <2>5 DEF Slot
    <3> QED  BY <2>2, <2>4, <3>1
  <2>6. ASSUME i >= k PROVE i - k \in Slot /\ Bucket(q, i) = Bucket(f, i - k)
    <3>1. i - k \in Slot /\ A(s) > k /\ s = RingBack(Ring, f.head, i - k)  BY <2>1, <2>6
    <3>2. new[s] = f.buckets[s]  BY <1>1, <2>3, <2>4, <3>1
    <3>3. Bucket(f, i - k) = f.buckets[s]  BY <3>1, FactorFacts
    <3> QED  BY <2>2, <3>1, <3>2, <3>3
  <2> QED  BY <2>5, <2>6
<1> QED  BY <1>3, <1>7, <1>8, <1>9 DEF q

\* Opening k buckets keeps the ring exact, and drops those it has no room for.
LEMMA OpenRing ==
    ASSUME NEW f, NEW cs, NEW start, RingInv(f, cs, start), f.count > 0, NEW k \in 0 .. Ring
    PROVE  LET q == Open(f, k) IN
           /\ RingInv(q, cs, start) /\ q.count >= f.count /\ HeadTs(q) = HeadTs(f) + Span(k)
           /\ q.z = f.z /\ q.recent = f.recent
<1> DEFINE q == Open(f, k)
           h == HeadTs(f)
<1>1. /\ f \in Factor /\ cs \in Seq(Cancel) /\ start \in Nat
      /\ Tiled(f) /\ Exact(f, cs) /\ Reaches(f, start)
      /\ \A n \in DOMAIN cs : cs[n].b <= h
  BY DEF RingInv
<1>2. /\ f.count \in Nat /\ f.count <= Ring /\ h \in Nat /\ Ring \in Nat \ {0}
      /\ k \in Nat /\ Span(k) \in Nat
  <2>1. /\ f.count \in Nat /\ f.count <= Ring /\ h \in Nat /\ Ring \in Nat \ {0}
    BY <1>1, FactorFacts, RingSize
  <2>2. k \in Nat  BY <2>1
  <2> QED  BY <2>1, <2>2, SpanNat
<1>3. /\ q \in Factor
      /\ q.count = IF f.count + k <= Ring THEN f.count + k ELSE Ring
      /\ q.z = f.z /\ q.recent = f.recent
      /\ \A i \in Slot : i < k => Bucket(q, i) = Fresh(h + Span(k - i))
      /\ \A i \in Slot : i >= k => i - k \in Slot /\ Bucket(q, i) = Bucket(f, i - k)
  BY <1>1, OpenPlaces
<1> HIDE DEF q
<1>4. HeadTs(q) = h + Span(k)
  <2>1. HeadTs(q) = Bucket(q, 0).ts  BY <1>3, FactorFacts DEF HeadTs
  <2>2. CASE k = 0
    <3>1. Bucket(q, 0) = Bucket(f, 0)  BY <1>2, <1>3, <2>2, RingSize
    <3>2. Bucket(f, 0).ts = h  BY <1>1, FactorFacts DEF HeadTs
    <3>3. Span(k) = 0  BY <2>2, SpanFacts
    <3> HIDE DEF h
    <3> QED  BY <1>2, <2>1, <3>1, <3>2, <3>3
  <2>3. CASE k # 0
    <3>1. Bucket(q, 0) = Fresh(h + Span(k - 0))  BY <1>2, <1>3, <2>3, RingSize
    <3> HIDE DEF h
    <3> QED  BY <1>2, <2>1, <3>1 DEF Fresh
  <2> QED  BY <2>2, <2>3
<1> HIDE DEF h
<1>5. ASSUME NEW i \in Live(q)
      PROVE  /\ i \in Slot /\ i \in Nat /\ Span(i) \in Nat
             /\ i < k => k - i \in Nat /\ Span(k - i) \in Nat /\ Span(k) = Span(i) + Span(k - i)
             /\ i < k => Span(i) + BucketSize <= Span(k)
             /\ i >= k => i - k \in Live(f) /\ Span(i - k) \in Nat
             /\ i >= k => Span(i) = Span(k) + Span(i - k)
  <2>1. i \in Slot /\ i \in Nat  BY <1>3, FactorFacts
  <2>2. i >= k => i - k \in Live(f) /\ i - k \in Nat  BY <1>2, <1>3, <2>1 DEF Live
  <2>3. i < k => k - i \in Nat /\ Span(k) = Span(i) + Span(k - i) /\ Span(i) + BucketSize <= Span(k)
    BY <1>2, <2>1, SpanOrder
  <2>4. i >= k => Span(i) = Span(k) + Span(i - k)  BY <1>2, <2>1, SpanOrder
  <2> QED  BY <2>1, <2>2, <2>3, <2>4, SpanNat
<1>6. Tiled(q)
  <2> SUFFICES ASSUME NEW i \in Live(q) PROVE Bucket(q, i).ts + Span(i) = HeadTs(q)  BY DEF Tiled
  <2>1. CASE i < k
    <3>1. Bucket(q, i).ts = h + Span(k - i)  BY <1>3, <1>5, <2>1 DEF Fresh
    <3> QED  BY <1>2, <1>4, <1>5, <2>1, <3>1
  <2>2. CASE i >= k
    <3>1. Bucket(q, i) = Bucket(f, i - k)  BY <1>3, <1>5, <2>2
    <3>2. i - k \in Live(f) /\ Bucket(f, i - k).ts + Span(i - k) = h
      BY <1>1, <1>5, <2>2 DEF Tiled, h
    <3>3. Bucket(f, i - k).ts \in Nat  BY <1>1, <3>2, FactorFacts
    <3> QED  BY <1>2, <1>4, <1>5, <2>2, <3>1, <3>2, <3>3
  <2> QED  BY <1>2, <1>5, <2>1, <2>2
<1>7. Exact(q, cs)
  <2> SUFFICES ASSUME NEW i \in Live(q), NEW side \in Side
               PROVE  Bucket(q, i).cancels[side] = Cardinality(Those(cs, side, i, HeadTs(q)))
    BY DEF Exact
  <2>0. \A n \in DOMAIN cs : cs[n].b \in Nat  BY <1>1, CancelFacts
  <2>1. CASE i < k
    <3>1. Bucket(q, i).cancels[side] = 0  BY <1>3, <1>5, <2>1 DEF Fresh
    <3>2. Those(cs, side, i, HeadTs(q)) = {}
      <4>1. ASSUME NEW n \in DOMAIN cs PROVE cs[n].b + Span(i) # HeadTs(q)
        <5>1. cs[n].b \in Nat /\ cs[n].b <= h  BY <1>1, <2>0
        <5>2. Span(i) \in Nat /\ Span(i) + BucketSize <= Span(k)  BY <1>5, <2>1
        <5> QED  BY <1>2, <1>4, <5>1, <5>2, CancelAssumption
      <4> QED  BY <4>1 DEF Those
    <3> QED  BY <3>1, <3>2, FS_EmptySet
  <2>2. CASE i >= k
    <3>1. Bucket(q, i) = Bucket(f, i - k)  BY <1>3, <1>5, <2>2
    <3>2. Bucket(f, i - k).cancels[side] = Cardinality(Those(cs, side, i - k, h))
      BY <1>1, <1>5, <2>2 DEF Exact, h
    <3>3. \A n \in DOMAIN cs : cs[n].b + Span(i) = HeadTs(q) <=> cs[n].b + Span(i - k) = h
      BY <1>2, <1>4, <1>5, <2>0, <2>2
    <3>4. Those(cs, side, i, HeadTs(q)) = Those(cs, side, i - k, h)  BY <3>3 DEF Those
    <3> QED  BY <3>1, <3>2, <3>4
  <2> QED  BY <1>2, <1>5, <2>1, <2>2
<1>8. Reaches(q, start)
  <2> DEFINE a == f.count - 1
             b == q.count - 1
  <2>1. a \in Nat /\ b \in Nat /\ b <= a + k /\ (q.count < Ring => b = a + k /\ f.count < Ring)
    BY <1>2, <1>3
  <2>2. start + Span(a) <= h /\ (f.count < Ring => start + Span(a) = h)
    BY <1>1 DEF Reaches, h
  <2>3. Span(a + k) = Span(a) + Span(k) /\ Span(a) \in Nat /\ Span(b) \in Nat
    BY <1>2, <2>1, SpanFacts
  <2>4. Span(b) <= Span(a + k)
    <3>1. a + k \in Nat  BY <1>2, <2>1
    <3> HIDE DEF a, b
    <3> QED  BY <2>1, <3>1, SpanOrder
  <2>5. start + Span(b) <= HeadTs(q)  BY <1>1, <1>2, <1>4, <2>2, <2>3, <2>4
  <2>6. q.count < Ring => start + Span(b) = HeadTs(q)
    <3> HIDE DEF a, b
    <3> QED  BY <1>1, <1>2, <1>4, <2>1, <2>2, <2>3
  <2> QED  BY <2>5, <2>6 DEF Reaches
<1>9. q.count >= f.count /\ q.count > 0  BY <1>2, <1>3
<1>10. \A n \in DOMAIN cs : cs[n].b <= HeadTs(q)
  <2>0. \A n \in DOMAIN cs : cs[n].b \in Nat  BY <1>1, CancelFacts
  <2> QED  BY <1>1, <1>2, <1>4, <2>0
<1> QED  BY <1>1, <1>3, <1>4, <1>6, <1>7, <1>8, <1>9, <1>10 DEF RingInv, q, h
\* Time moves the head only forward.
LEMMA AdvanceRing ==
    ASSUME NEW f, NEW cs, NEW start, RingInv(f, cs, start), NEW t \in Nat
    PROVE  LET q == advance_time(f, t) IN
           /\ RingInv(q, cs, IF f.count = 0 THEN t ELSE start)
           /\ q.count > 0 /\ q.count >= f.count
           /\ f.count > 0 => HeadTs(f) <= HeadTs(q)
           /\ q.z = f.z /\ q.recent = f.recent
<1> DEFINE q == advance_time(f, t)
<1>1. /\ f \in Factor /\ cs \in Seq(Cancel) /\ f.count \in Nat /\ HeadTs(f) \in Nat
      /\ f.buckets \in [Slot -> CancelBucket] /\ 0 \in Slot /\ Ring \in Nat \ {0}
  BY FactorFacts, RingSize DEF RingInv
<1>2. CASE f.count = 0
  <2>1. q = [f EXCEPT !.buckets = [f.buckets EXCEPT ![0] = Fresh(t)], !.head = 0, !.count = 1]
    BY <1>2 DEF advance_time
  <2>2. DOMAIN cs = {}
    <3>1. \A k \in DOMAIN cs : f.count > 0  BY DEF RingInv
    <3>2. ~(f.count > 0)  BY <1>2
    <3> QED  BY <3>1, <3>2
  <2>3. Fresh(t) \in CancelBucket  BY DEF Fresh, CancelBucket
  <2> HIDE DEF q
  <2>4. /\ q.buckets = [f.buckets EXCEPT ![0] = Fresh(t)] /\ q.head = 0 /\ q.count = 1
        /\ q.z = f.z /\ q.recent = f.recent
    BY <1>1, <2>1 DEF Factor
  <2>5. q \in Factor
    <3> DEFINE new == [f.buckets EXCEPT ![0] = Fresh(t)]
    <3>1. new \in [Slot -> CancelBucket]  BY <1>1, <2>3
    <3> HIDE DEF new
    <3>2. 1 \in 0 .. Ring  BY <1>1
    <3>3. q = [f EXCEPT !.buckets = new, !.head = 0, !.count = 1]  BY <2>1 DEF new
    <3> QED  BY <1>1, <3>1, <3>2, <3>3 DEF Factor
  <2>6. q.buckets[q.head] = Fresh(t) /\ HeadTs(q) = t  BY <1>1, <2>4 DEF HeadTs, Fresh
  <2>7. Bucket(q, 0) = Fresh(t)  BY <2>5, <2>6, FactorFacts
  <2>8. Live(q) = {0}  BY <2>4 DEF Live
  <2>9. Tiled(q)  BY <2>6, <2>7, <2>8, SpanFacts DEF Tiled, Fresh
  <2>10. Exact(q, cs)
    <3>1. \A side : Those(cs, side, 0, HeadTs(q)) = {}  BY <2>2 DEF Those
    <3> QED  BY <2>7, <2>8, <3>1, FS_EmptySet DEF Exact, Fresh
  <2>11. Reaches(q, t)
    <3>1. q.count - 1 = 0  BY <2>4
    <3>2. Span(q.count - 1) = 0  BY <3>1, SpanFacts
    <3> QED  BY <2>6, <3>2 DEF Reaches
  <2> QED  BY <1>1, <1>2, <2>2, <2>4, <2>5, <2>9, <2>10, <2>11 DEF RingInv, q
<1>3. CASE f.count # 0
  <2>0. f.count > 0  BY <1>1, <1>3
  <2>1. CASE t < HeadTs(f) + BucketSize
    <3>1. q = f  BY <1>3, <2>1 DEF advance_time
    <3> QED  BY <1>1, <1>3, <2>0, <3>1
  <2>2. CASE ~(t < HeadTs(f) + BucketSize)
    <3> DEFINE a == t - HeadTs(f)
               d == a \div BucketSize
               k == Min({d, Ring})
    <3>1. a \in Nat  BY <1>1, <2>2, CancelAssumption
    <3>2. d \in Nat
      <4> HIDE DEF a, d
      <4> QED  BY <3>1, CancelAssumption, DivMod DEF d
    <3> HIDE DEF d
    <3>3. k = IF d <= Ring THEN d ELSE Ring  BY <1>1, <3>2, MinOfTwo
    <3>4. q = Open(f, k)  BY <1>3, <2>2 DEF advance_time, d
    <3> HIDE DEF k
    <3>5. k \in 0 .. Ring /\ k \in Nat  BY <1>1, <3>2, <3>3
    <3>6. /\ RingInv(q, cs, start) /\ q.count >= f.count /\ HeadTs(q) = HeadTs(f) + Span(k)
          /\ q.z = f.z /\ q.recent = f.recent
      BY <2>0, <3>4, <3>5, OpenRing
    <3>7. Span(k) \in Nat  BY <3>5, SpanNat
    <3>8. q.count \in Nat  BY <3>6, FactorFacts DEF RingInv
    <3> QED  BY <1>1, <1>3, <2>0, <3>6, <3>7, <3>8
  <2> QED  BY <2>1, <2>2
<1> QED  BY <1>2, <1>3

\* The head follows the clock, by Ring buckets at most.
LEMMA HeadClock ==
    ASSUME NEW f, NEW cs, NEW start, RingInv(f, cs, start), NEW t \in Nat,
           f.count > 0 => HeadTs(f) <= t
    PROVE  LET q == advance_time(f, t) IN
           /\ HeadTs(q) \in Nat /\ HeadTs(q) <= t
           /\ f.count = 0 => HeadTs(q) = t
           /\ f.count > 0 => \E k \in Nat :
                 HeadTs(q) = HeadTs(f) + Span(k) /\ (t < HeadTs(q) + BucketSize \/ k = Ring)
<1> DEFINE q == advance_time(f, t)
<1>1. /\ f \in Factor /\ f.count \in Nat /\ HeadTs(f) \in Nat
      /\ f.buckets \in [Slot -> CancelBucket] /\ 0 \in Slot /\ Ring \in Nat \ {0}
  BY FactorFacts, RingSize DEF RingInv
<1>2. CASE f.count = 0
  <2>1. q = [f EXCEPT !.buckets = [f.buckets EXCEPT ![0] = Fresh(t)], !.head = 0, !.count = 1]
    BY <1>2 DEF advance_time
  <2> HIDE DEF q
  <2>2. q.buckets = [f.buckets EXCEPT ![0] = Fresh(t)] /\ q.head = 0  BY <1>1, <2>1 DEF Factor
  <2>3. HeadTs(q) = t  BY <1>1, <2>2 DEF HeadTs, Fresh
  <2> QED  BY <1>2, <2>3 DEF q
<1>3. CASE f.count # 0
  <2>0. f.count > 0 /\ HeadTs(f) <= t  BY <1>1, <1>3
  <2>1. CASE t < HeadTs(f) + BucketSize
    <3>1. q = f  BY <1>3, <2>1 DEF advance_time
    <3>2. HeadTs(q) = HeadTs(f) + Span(0)  BY <1>1, <3>1, SpanFacts
    <3> QED  BY <1>1, <1>3, <2>0, <2>1, <3>1, <3>2
  <2>2. CASE ~(t < HeadTs(f) + BucketSize)
    <3> DEFINE a == t - HeadTs(f)
               d == a \div BucketSize
               k == Min({d, Ring})
    <3>1. a \in Nat  BY <1>1, <2>0
    <3>2. /\ d \in Nat /\ a % BucketSize \in 0 .. BucketSize - 1
          /\ a = BucketSize * d + (a % BucketSize)
      <4> HIDE DEF a, d
      <4> QED  BY <3>1, CancelAssumption, DivMod DEF d
    <3> HIDE DEF d
    <3>3. k = IF d <= Ring THEN d ELSE Ring  BY <1>1, <3>2, MinOfTwo
    <3>4. q = Open(f, k)  BY <1>3, <2>2 DEF advance_time, d
    <3>5. Span(d) <= a /\ a < Span(d) + BucketSize /\ Span(d) \in Nat
      <4>1. BucketSize * d = Span(d) /\ Span(d) \in Nat
        BY <3>2, CancelAssumption, SpanNat DEF Span
      <4> HIDE DEF a
      <4> QED  BY <3>1, <3>2, <4>1, CancelAssumption
    <3> HIDE DEF k
    <3>6. k \in 0 .. Ring /\ k \in Nat /\ k <= d  BY <1>1, <3>2, <3>3
    <3>7. HeadTs(q) = HeadTs(f) + Span(k)  BY <2>0, <3>4, <3>6, OpenRing
    <3>8. Span(k) \in Nat /\ Span(k) <= Span(d)  BY <3>2, <3>6, SpanNat, SpanOrder
    <3>9. HeadTs(q) \in Nat /\ HeadTs(q) <= t  BY <1>1, <3>5, <3>7, <3>8
    <3>10. k = Ring \/ t < HeadTs(q) + BucketSize
      <4>1. CASE d <= Ring
        <5>1. Span(k) = Span(d)  BY <3>3, <4>1
        <5> QED  BY <1>1, <3>5, <3>7, <5>1, CancelAssumption
      <4>2. CASE ~(d <= Ring)  BY <3>3, <4>2
      <4> QED  BY <4>1, <4>2
    <3> QED  BY <1>3, <3>6, <3>7, <3>9, <3>10
  <2> QED  BY <2>1, <2>2
<1> QED  BY <1>2, <1>3

\* A cancellation x more in the list is one more in its own bucket and side.
Grown(cs, x, side, i, h) ==
    /\ Cardinality(Those(cs, side, i, h)) \in Nat
    /\ Cardinality(Those(Append(cs, x), side, i, h)) = Cardinality(Those(cs, side, i, h))
          + (IF x.side = side /\ x.b + Span(i) = h THEN 1 ELSE 0)

\* So it is.
LEMMA ThoseAppend ==
    ASSUME NEW cs \in Seq(Cancel), NEW e \in Cancel, NEW side \in Side, NEW i \in Nat, NEW h \in Nat
    PROVE  Grown(cs, e, side, i, h)
<1> DEFINE new == Append(cs, e)
           A == Those(cs, side, i, h)
           n == Len(cs) + 1
<1>1. Len(cs) \in Nat /\ DOMAIN cs = 1 .. Len(cs) /\ IsFiniteSet(DOMAIN cs)  BY CancelFacts
<1>2. DOMAIN new = DOMAIN cs \cup {n} /\ n \notin DOMAIN cs
  BY <1>1
<1>3. new[n] = e /\ \A k \in DOMAIN cs : new[k] = cs[k]  BY <1>1
<1>4. A \in SUBSET DOMAIN cs  BY DEF Those
<1>5. IsFiniteSet(A) /\ Cardinality(A) \in Nat  BY <1>1, <1>4, CardSplit
<1> HIDE DEF new, n
<1>6. Those(new, side, i, h) = IF e.side = side /\ e.b + Span(i) = h THEN A \cup {n} ELSE A
  BY <1>2, <1>3 DEF Those
<1>7. n \notin A  BY <1>2, <1>4
<1> HIDE DEF A
<1>8. Cardinality(A \cup {n}) = Cardinality(A) + 1  BY <1>5, <1>7, FS_AddElement
<1> QED  BY <1>5, <1>6, <1>8 DEF new, A, Grown

\* A cancellation is counted in the bucket it is recorded with.
LEMMA CountRing ==
    ASSUME NEW f, NEW cs, NEW start, RingInv(f, cs, start), f.count > 0,
           NEW cancel \in Side \cup {"None"}, NEW t \in Nat
    PROVE  LET q == CountCancel(f, cancel)
               new == IF cancel = "None" THEN cs
                      ELSE Append(cs, [t |-> t, b |-> HeadTs(f), side |-> cancel])
           IN /\ RingInv(q, new, start) /\ q.count = f.count /\ HeadTs(q) = HeadTs(f)
              /\ q.z = f.z /\ q.recent = f.recent
<1>0. ASSUME NEW x \in Cancel, NEW side \in Side, NEW i \in Nat, NEW n \in Nat
      PROVE  Grown(cs, x, side, i, n)
  <2>1. cs \in Seq(Cancel)  BY DEF RingInv
  <2> QED  BY <2>1, ThoseAppend
<1>1. CASE cancel = "None"
  <2>1. CountCancel(f, cancel) = f  BY <1>1 DEF CountCancel, Side
  <2> QED  BY <1>1, <2>1
<1>2. CASE cancel # "None"
  <2> DEFINE q == CountCancel(f, cancel)
             h == HeadTs(f)
             e == [t |-> t, b |-> h, side |-> cancel]
             new == Append(cs, e)
             o == f.buckets[f.head]
             p == [o EXCEPT !.cancels = [o.cancels EXCEPT ![cancel] = o.cancels[cancel] + 1]]
  <2>1. cancel \in Side  BY <1>2
  <2>2. /\ f \in Factor /\ cs \in Seq(Cancel) /\ start \in Nat
        /\ Tiled(f) /\ Exact(f, cs) /\ Reaches(f, start)
        /\ \A n \in DOMAIN cs : cs[n].b <= h
    BY DEF RingInv
  <2>3. /\ f.buckets \in [Slot -> CancelBucket] /\ f.head \in Slot /\ f.count \in Nat /\ h \in Nat
        /\ Live(f) \subseteq Slot /\ Live(f) \subseteq Nat
        /\ \A i \in Slot : /\ Bucket(f, i) = f.buckets[RingBack(Ring, f.head, i)]
                           /\ Bucket(f, i) \in CancelBucket
        /\ Bucket(f, 0) = o
    BY <2>2, FactorFacts
  <2>4. o \in CancelBucket /\ o.ts = h  BY <2>3 DEF HeadTs
  <2>5. q = [f EXCEPT !.buckets = [f.buckets EXCEPT ![f.head] = p]]
    BY <2>1 DEF CountCancel
  <2> HIDE DEF o, h
  <2>6. /\ p \in CancelBucket /\ p.ts = o.ts
        /\ \A side \in Side : p.cancels[side] = o.cancels[side] + (IF side = cancel THEN 1 ELSE 0)
    BY <2>1, <2>4 DEF CancelBucket
  <2> HIDE DEF p, q
  <2>7. /\ q.buckets = [f.buckets EXCEPT ![f.head] = p] /\ q.head = f.head /\ q.count = f.count
        /\ q.z = f.z /\ q.recent = f.recent
    BY <2>2, <2>5 DEF Factor
  <2>8. q \in Factor
    <3>1. q.buckets \in [Slot -> CancelBucket]  BY <2>3, <2>6, <2>7
    <3> QED  BY <2>2, <2>5, <2>7, <3>1 DEF Factor
  <2>9. Live(q) = Live(f) /\ HeadTs(q) = h
    <3>1. q.buckets[q.head] = p  BY <2>3, <2>7
    <3> QED  BY <2>4, <2>6, <2>7, <3>1 DEF Live, HeadTs
  <2>10. /\ Bucket(q, 0) = p
         /\ \A i \in Slot : i # 0 => Bucket(q, i) = Bucket(f, i)
    <3>1. q.buckets[q.head] = p  BY <2>3, <2>7
    <3>2. Bucket(q, 0) = p  BY <2>8, <3>1, FactorFacts
    <3>3. ASSUME NEW i \in Slot, i # 0 PROVE Bucket(q, i) = Bucket(f, i)
      <4> DEFINE s == RingBack(Ring, f.head, i)
      <4>1. s \in Slot /\ s # f.head  BY <2>3, <3>3, RingSize, RingHead DEF Slot
      <4>2. Bucket(q, i) = q.buckets[s]  BY <2>7, <2>8, FactorFacts
      <4>3. Bucket(f, i) = f.buckets[s]  BY <2>3
      <4> HIDE DEF s
      <4> QED  BY <2>3, <2>7, <4>1, <4>2, <4>3
    <3> QED  BY <3>2, <3>3
  <2>11. e \in Cancel /\ e.b = h /\ e.side = cancel  BY <2>1, <2>3 DEF Cancel
  <2> HIDE DEF e
  <2>12. Tiled(q)
    <3> SUFFICES ASSUME NEW i \in Live(f) PROVE Bucket(q, i).ts + Span(i) = h
      BY <2>9 DEF Tiled
    <3>1. Bucket(q, i).ts = Bucket(f, i).ts
      <4>1. CASE i = 0  BY <2>3, <2>6, <2>10, <4>1
      <4>2. CASE i # 0  BY <2>3, <2>10, <4>2
      <4> QED  BY <4>1, <4>2
    <3> QED  BY <2>2, <3>1 DEF Tiled, h
  <2>13. Exact(q, new)
    <3> SUFFICES ASSUME NEW i \in Live(f), NEW side \in Side
                 PROVE  Bucket(q, i).cancels[side] = Cardinality(Those(new, side, i, h))
      BY <2>9 DEF Exact
    <3>0. i \in Nat /\ i \in Slot  BY <2>3
    <3>1. /\ Cardinality(Those(cs, side, i, h)) \in Nat
          /\ Cardinality(Those(new, side, i, h)) = Cardinality(Those(cs, side, i, h))
                 + (IF e.side = side /\ e.b + Span(i) = h THEN 1 ELSE 0)
      <4>1. Grown(cs, e, side, i, h)  BY <1>0, <2>3, <2>11, <3>0
      <4> QED  BY <4>1 DEF Grown
    <3>2. e.b + Span(i) = h <=> i = 0
      <4>1. /\ Span(i) \in Nat /\ Span(0) = 0 /\ (0 < i => Span(0) + BucketSize <= Span(i))
        BY <3>0, SpanNat, SpanFacts
      <4>2. i = 0 => Span(i) = 0  BY <4>1
      <4> QED  BY <2>3, <2>11, <3>0, <4>1, <4>2, CancelAssumption
    <3>3. Bucket(f, i).cancels[side] = Cardinality(Those(cs, side, i, h))  BY <2>2 DEF Exact, h
    <3>4. CASE i = 0
      <4>1. Bucket(q, i).cancels[side] = Bucket(f, i).cancels[side] + (IF side = cancel THEN 1 ELSE 0)
        BY <2>3, <2>6, <2>10, <3>4
      <4> QED  BY <2>11, <3>1, <3>2, <3>3, <3>4, <4>1
    <3>5. CASE i # 0
      <4>1. Bucket(q, i) = Bucket(f, i)  BY <2>10, <3>0, <3>5
      <4> QED  BY <3>1, <3>2, <3>3, <3>5, <4>1
    <3> QED  BY <3>4, <3>5
  <2>14. Reaches(q, start)  BY <2>2, <2>7, <2>9 DEF Reaches, h
  <2>15. new \in Seq(Cancel) /\ \A n \in DOMAIN new : new[n].b <= h
    <3>1. Len(cs) \in Nat /\ DOMAIN cs = 1 .. Len(cs)  BY <2>2, CancelFacts
    <3>2. new \in Seq(Cancel)  BY <2>2, <2>11
    <3>3. \A n \in DOMAIN new : new[n] = e \/ (n \in DOMAIN cs /\ new[n] = cs[n])  BY <2>2, <3>1
    <3> QED  BY <2>2, <2>3, <2>11, <3>2, <3>3
  <2>16. q.count > 0  BY <2>7
  <2> HIDE DEF new
  <2>17. RingInv(q, new, start)
    BY <2>2, <2>8, <2>9, <2>12, <2>13, <2>14, <2>15, <2>16 DEF RingInv
  <2> QED  BY <1>2, <2>7, <2>9, <2>17 DEF q, new, e, h
<1> QED  BY <1>1, <1>2
-----------------------------------------------------------------------------
(* The window and the scores *)

LEMMA SpanLess ==
    ASSUME NEW i \in Nat, NEW j \in Nat
    PROVE  Span(i) <= Span(j) <=> i <= j
<1>1. i <= j => Span(i) <= Span(j)  BY SpanOrder
<1>2. j < i => Span(j) + BucketSize <= Span(i)  BY SpanOrder
<1>3. Span(i) \in Nat /\ Span(j) \in Nat  BY SpanNat
<1> QED  BY <1>1, <1>2, <1>3, CancelAssumption

\* The buckets of the window since the first event, and what the list says of them.
WindowOf(f, start) == {i \in 0 .. Window \div BucketSize : HeadTs(f) - Span(i) >= start}

ListScore(f, cs, start, side) ==
    LET w == WindowOf(f, start)
        c == [i \in w |-> Cardinality(Those(cs, side, i, HeadTs(f)))]
    IN ZScore(Cardinality(w), Cardinality(Those(cs, side, 0, HeadTs(f))),
              SumFunctionOnSet(c, w), SumFunctionOnSet([i \in w |-> c[i] * c[i]], w))

\* The loop of recompute_zscores visits these buckets, at least two of them when there
\* are two.
LEMMA WindowLive ==
    ASSUME NEW f, NEW cs, NEW start, RingInv(f, cs, start), f.count > 0
    PROVE  /\ InWindow(f) = WindowOf(f, start) /\ InWindow(f) \subseteq Live(f)
           /\ 0 \in InWindow(f) /\ (f.count >= 2 => 1 \in InWindow(f))
           /\ IsFiniteSet(InWindow(f)) /\ Cardinality(InWindow(f)) \in Nat
           /\ Cardinality(InWindow(f)) <= f.count
<1> DEFINE h == HeadTs(f)
           w == InWindow(f)
           v == WindowOf(f, start)
           c == f.count - 1
<1>1. f \in Factor /\ start \in Nat /\ Tiled(f) /\ Reaches(f, start)  BY DEF RingInv
<1>2. /\ f.count \in Nat /\ f.count <= Ring /\ h \in Nat /\ c \in Nat
      /\ \A i \in Live(f) : i \in Nat /\ Bucket(f, i).ts \in Nat
  BY <1>1, FactorFacts
<1>3. PICK m \in Nat \ {0} : m = Window \div BucketSize /\ Window = Span(m) /\ m + 1 <= Ring
  BY WindowSpan
<1>4. /\ start + Span(c) <= h /\ (f.count < Ring => start + Span(c) = h)
      /\ Span(c) \in Nat /\ Span(m) \in Nat
  BY <1>1, <1>2, <1>3, SpanNat DEF Reaches
<1>5. \A i \in Live(f) : /\ Span(i) \in Nat /\ Bucket(f, i).ts = h - Span(i)
                         /\ h - Span(i) \in Nat
  <2> SUFFICES ASSUME NEW i \in Live(f)
               PROVE  Span(i) \in Nat /\ Bucket(f, i).ts = h - Span(i) /\ h - Span(i) \in Nat
    OBVIOUS
  <2>1. Span(i) \in Nat  BY <1>2, SpanNat
  <2>2. Bucket(f, i).ts + Span(i) = h  BY <1>1 DEF Tiled
  <2> HIDE DEF h
  <2> QED  BY <1>2, <2>1, <2>2
<1>6. Live(f) = 0 .. c  BY DEF Live
<1>7. w = {i \in Live(f) : \A j \in 0 .. i : Bucket(f, j).ts >= cutoff(h)}
  BY DEF InWindow, Live
<1>8. v = {i \in 0 .. m : h - Span(i) >= start}  BY <1>3 DEF WindowOf
<1> HIDE DEF h, w, v, c
<1>9. ASSUME NEW i \in w PROVE i \in v
  <2>1. i \in Live(f) /\ i \in Nat /\ i <= c /\ i \in 0 .. i  BY <1>2, <1>6, <1>7
  <2>2. h - Span(i) >= cutoff(h) /\ h - Span(i) \in Nat /\ Span(i) \in Nat  BY <1>5, <1>7, <2>1
  <2>3. Span(i) <= Span(m)  BY <1>2, <1>3, <1>4, <2>2 DEF cutoff
  <2>4. i <= m  BY <1>3, <2>1, <2>3, SpanLess
  <2>5. Span(i) <= Span(c)  BY <1>2, <2>1, SpanLess
  <2>6. h - Span(i) >= start  BY <1>1, <1>2, <1>4, <2>2, <2>5
  <2>7. i \in 0 .. m  BY <1>3, <2>1, <2>4
  <2> QED  BY <1>8, <2>6, <2>7
<1>10. ASSUME NEW i \in v PROVE i \in w /\ i \in Live(f)
  <2>1. i \in Nat /\ i <= m /\ h - Span(i) >= start
    <3>1. i \in 0 .. m  BY <1>8
    <3> QED  BY <1>8, <3>1
  <2>2. Span(i) \in Nat /\ Span(i) <= Span(m)  BY <1>3, <2>1, SpanNat, SpanLess
  <2>3. i <= c
    <3>1. CASE f.count < Ring
      <4>1. Span(i) <= Span(c)  BY <1>1, <1>2, <1>4, <2>1, <2>2, <3>1
      <4> QED  BY <1>2, <2>1, <4>1, SpanLess
    <3>2. CASE f.count = Ring  BY <1>2, <1>3, <2>1, <3>2 DEF c
    <3> QED  BY <1>2, <3>1, <3>2, RingSize
  <2>4. i \in Live(f)  BY <1>2, <1>6, <2>1, <2>3
  <2>5. ASSUME NEW j \in 0 .. i PROVE Bucket(f, j).ts >= cutoff(h)
    <3>1. j \in Nat /\ j <= i /\ j \in Live(f)  BY <1>2, <1>6, <2>1, <2>3
    <3>2. Span(j) <= Span(i)  BY <2>1, <3>1, SpanLess
    <3>3. Bucket(f, j).ts = h - Span(j) /\ Span(j) \in Nat  BY <1>5, <3>1
    <3> QED  BY <1>1, <1>2, <1>3, <1>4, <2>1, <2>2, <3>2, <3>3 DEF cutoff
  <2> QED  BY <1>7, <2>4, <2>5
<1>11. w = v /\ w \subseteq Live(f)  BY <1>9, <1>10
<1>12. 0 \in v
  <2>1. Span(0) = 0  BY SpanFacts
  <2>2. h - Span(0) >= start  BY <1>1, <1>2, <1>4, <2>1
  <2>3. 0 \in 0 .. m  OBVIOUS
  <2> QED  BY <1>8, <2>2, <2>3
<1>13. f.count >= 2 => 1 \in v
  <2> SUFFICES ASSUME f.count >= 2 PROVE 1 \in v  OBVIOUS
  <2>1. 1 <= c  BY <1>2 DEF c
  <2>2. Span(1) <= Span(c) /\ Span(1) \in Nat  BY <1>2, <2>1, SpanLess, SpanNat
  <2>3. h - Span(1) >= start  BY <1>1, <1>2, <1>4, <2>2
  <2>4. 1 \in 0 .. m  BY <1>3
  <2> QED  BY <1>8, <2>3, <2>4
<1>14. /\ IsFiniteSet(Live(f)) /\ Cardinality(Live(f)) = f.count
  <2>1. IsFiniteSet(0 .. c) /\ Cardinality(0 .. c) = IF 0 > c THEN 0 ELSE c - 0 + 1
    BY <1>2, FS_Interval
  <2> QED  BY <1>2, <1>6, <2>1 DEF c
<1>15. IsFiniteSet(w) /\ Cardinality(w) <= f.count /\ Cardinality(w) \in Nat
  BY <1>11, <1>14, FS_Subset, FS_CardinalityType
<1> QED  BY <1>11, <1>12, <1>13, <1>15 DEF w, v

\* The ring scores a bucket as the list does.
LEMMA ScoreExact ==
    ASSUME NEW f, NEW cs, NEW start, RingInv(f, cs, start), f.count > 0, NEW side \in Side
    PROVE  Score(f, InWindow(f), side) = ListScore(f, cs, start, side)
<1> DEFINE w == InWindow(f)
           a == [i \in w |-> Bucket(f, i).cancels[side]]
           c == [i \in w |-> Cardinality(Those(cs, side, i, HeadTs(f)))]
<1>1. w = WindowOf(f, start) /\ w \subseteq Live(f) /\ 0 \in w  BY WindowLive
<1>2. \A i \in w : Bucket(f, i).cancels[side] = Cardinality(Those(cs, side, i, HeadTs(f)))
  BY <1>1 DEF RingInv, Exact
<1> HIDE DEF w
<1>3. a = c  BY <1>2
<1>4. Bucket(f, 0).cancels[side] = Cardinality(Those(cs, side, 0, HeadTs(f)))  BY <1>1, <1>2
<1>5. Score(f, w, side) = ZScore(Cardinality(w), Bucket(f, 0).cancels[side],
              SumFunctionOnSet(a, w), SumFunctionOnSet([i \in w |-> a[i] * a[i]], w))
  BY DEF Score
<1>6. ListScore(f, cs, start, side) = ZScore(Cardinality(w), Cardinality(Those(cs, side, 0, HeadTs(f))),
              SumFunctionOnSet(c, w), SumFunctionOnSet([i \in w |-> c[i] * c[i]], w))
  BY <1>1 DEF ListScore
<1> HIDE DEF a, c
<1> QED  BY <1>3, <1>4, <1>5, <1>6 DEF w
\* A score has a positive denominator and is at most sqrt(m) among m + 1 numbers.
LEMMA ZBound ==
    ASSUME NEW m \in Nat, NEW s \in Int, NEW q \in Nat, NEW c \in Int, s * s <= m * q,
           m = 0 => s = 0
    PROVE  LET z == ZScore(m + 1, c, s + c, q + c * c) IN z \in ZValue /\ z.num <= m * z.den
<1> DEFINE n == m + 1
           p == n * c - (s + c)
           v == n * (q + c * c) - (s + c) * (s + c)
           z == ZScore(n, c, s + c, q + c * c)
<1>1. (s + c) * (s + c) <= n * (q + c * c)  BY SpreadStep
<1>2. p * p <= m * v  BY PeakBound
<1>3. p \in Int /\ v \in Int
  <2>1. (s + c) * (s + c) \in Int /\ n * (q + c * c) \in Int /\ n * c \in Int  BY SMT
  <2> QED  BY <2>1
<1>4. v >= 0
  <2>1. (s + c) * (s + c) \in Int /\ n * (q + c * c) \in Int  BY SMT
  <2> QED  BY <1>1, <2>1
<1>5. z = IF v = 0 THEN NoZ ELSE [num |-> IF p < 0 THEN -(p * p) ELSE p * p, den |-> v]
  BY DEF ZScore
<1> HIDE DEF p, v, z
<1>6. p * p \in Nat  BY <1>3, SquareNat
<1>7. m * v \in Nat  BY <1>3, <1>4, SMT
<1>8. CASE v = 0
  <2>1. z = NoZ  BY <1>5, <1>8
  <2>2. m * 1 = m  BY SMT
  <2> QED  BY <2>1, <2>2 DEF NoZ, ZValue, z, n
<1>9. CASE v # 0
  <2> DEFINE x == IF p < 0 THEN -(p * p) ELSE p * p
  <2>1. z = [num |-> x, den |-> v]  BY <1>5, <1>9
  <2>2. x \in Int /\ x <= m * v  BY <1>2, <1>6, <1>7
  <2> HIDE DEF x
  <2>3. v \in Nat \ {0}  BY <1>3, <1>4, <1>9
  <2> QED  BY <2>1, <2>2, <2>3 DEF ZValue, z, n
<1> QED  BY <1>8, <1>9

\* The scores of the ring.
LEMMA ScoreBound ==
    ASSUME NEW f, NEW cs, NEW start, RingInv(f, cs, start), f.count > 0, NEW side \in Side
    PROVE  LET z == Score(f, InWindow(f), side) IN
           z \in ZValue /\ z.num <= (Cardinality(InWindow(f)) - 1) * z.den
<1> DEFINE w == InWindow(f)
           a == [i \in w |-> Bucket(f, i).cancels[side]]
           u == [i \in w |-> a[i] * a[i]]
           r == w \ {0}
           m == Cardinality(r)
           s == SumFunctionOnSet(a, r)
           q == SumFunctionOnSet(u, r)
           z == Score(f, w, side)
<1>1. w \subseteq Live(f) /\ 0 \in w /\ IsFiniteSet(w) /\ Cardinality(w) \in Nat  BY WindowLive
<1>2. \A i \in w : Bucket(f, i).cancels[side] \in Nat
  <2>1. f \in Factor  BY DEF RingInv
  <2>2. \A i \in w : Bucket(f, i) \in CancelBucket  BY <1>1, <2>1, FactorFacts
  <2> QED  BY <2>2 DEF CancelBucket
<1>3. z = ZScore(Cardinality(w), a[0], SumFunctionOnSet(a, w), SumFunctionOnSet(u, w))
  BY <1>1 DEF Score
<1> HIDE DEF w, z
<1>4. /\ \A i \in w : a[i] \in Int
      /\ \A i \in w : u[i] = a[i] * a[i]
  BY <1>2
<1> HIDE DEF a, u
<1>5. \A i \in w : u[i] \in Int
  <2>1. \A i \in w : a[i] * a[i] \in Nat  BY <1>4, SquareNat
  <2> QED  BY <1>4, <2>1
<1>6. r \in SUBSET w /\ IsFiniteSet(r) /\ Cardinality(w) = m + 1 /\ m \in Nat
  <2>1. IsFiniteSet(r) /\ m = Cardinality(w) - 1  BY <1>1, FS_RemoveElement
  <2>2. m \in Nat  BY <2>1, FS_CardinalityType
  <2> QED  BY <1>1, <2>1, <2>2
<1>7. m \in Nat /\ s \in Int /\ q \in Nat /\ s * s <= m * q
  <2>1. \A i \in r : a[i] \in Int /\ u[i] = a[i] * a[i]  BY <1>4
  <2> HIDE DEF r
  <2> QED  BY <1>6, <2>1, Spread
<1>8. m = 0 => s = 0
  <2> SUFFICES ASSUME m = 0 PROVE s = 0  OBVIOUS
  <2>1. r = {}  BY <1>6, FS_EmptySet
  <2> QED  BY <2>1, SumEmpty
<1>9. SumFunctionOnSet(a, w) = a[0] + s  BY <1>1, <1>4, SumRemove
<1>10. SumFunctionOnSet(u, w) = u[0] + q  BY <1>1, <1>5, SumRemove
<1> HIDE DEF r, m, s, q
<1>11. a[0] \in Int /\ u[0] = a[0] * a[0] /\ u[0] \in Int  BY <1>1, <1>4, <1>5
<1>12. a[0] + s = s + a[0] /\ u[0] + q = q + a[0] * a[0]  BY <1>7, <1>11
<1>13. z = ZScore(m + 1, a[0], s + a[0], q + a[0] * a[0])  BY <1>3, <1>6, <1>9, <1>10, <1>12
<1>14. z \in ZValue /\ z.num <= m * z.den  BY <1>7, <1>8, <1>11, <1>13, ZBound
<1>15. Cardinality(w) - 1 = m  BY <1>6
<1> QED  BY <1>14, <1>15 DEF w, z

\* The samples that are left.
LEMMA ExpireSuffix ==
    ASSUME NEW s \in Seq(ZSample), NEW t \in Nat
    PROVE  \E n \in 1 .. Len(s) + 1 :
              /\ Expire(s, t) = SubSeq(s, n, Len(s)) /\ Expire(s, t) \in Seq(ZSample)
              /\ Len(s) \in Nat /\ Len(Expire(s, t)) = Len(s) - n + 1
              /\ \A i \in 1 .. Len(s) : i >= n => Expire(s, t)[i - n + 1] = s[i]
              /\ \A i \in 1 .. n - 1 : ~(s[i].ts >= q_cutoff(t))
              /\ n <= Len(s) => s[n].ts >= q_cutoff(t)
<1> DEFINE S == {i \in DOMAIN s : s[i].ts >= q_cutoff(t)} \cup {Len(s) + 1}
           n == Min(S)
<1>1. /\ Len(s) \in Nat /\ DOMAIN s = 1 .. Len(s) /\ \A i \in 1 .. Len(s) : s[i] \in ZSample
  BY SeqElement
<1>2. S \in SUBSET Nat /\ S # {}  BY <1>1
<1>3. n \in S /\ \A i \in S : n <= i
  <2> HIDE DEF S
  <2> QED  BY <1>2, MinMember
<1>4. n \in 1 .. Len(s) + 1  BY <1>1, <1>3
<1>5. n <= Len(s) => s[n].ts >= q_cutoff(t)
  <2>1. n # Len(s) + 1 => s[n].ts >= q_cutoff(t)  BY <1>3
  <2> HIDE DEF n, S
  <2> QED  BY <1>1, <1>4, <2>1
<1>6. ASSUME NEW i \in 1 .. n - 1, s[i].ts >= q_cutoff(t) PROVE FALSE
  <2>1. i \in DOMAIN s /\ i < n  BY <1>1, <1>4
  <2>2. i \in S  BY <1>6, <2>1
  <2> HIDE DEF n, S
  <2> QED  BY <1>1, <1>3, <1>4, <2>1, <2>2
<1>7. Expire(s, t) = SubSeq(s, n, Len(s))  BY DEF Expire
<1> HIDE DEF n
<1> DEFINE e == SubSeq(s, n, Len(s))
<1>8. /\ e \in Seq(ZSample) /\ Len(e) = Len(s) - n + 1
      /\ \A i \in 1 .. Len(s) : i >= n => e[i - n + 1] = s[i]
  <2> DEFINE k == Len(s) - n + 1
  <2>1. k \in Nat  BY <1>1, <1>4
  <2>2. e = [i \in 1 .. k |-> s[n + i - 1]]  BY <1>1, <1>4
  <2>3. \A i \in 1 .. k : n + i - 1 \in 1 .. Len(s)  BY <1>1, <1>4
  <2>4. e \in [1 .. k -> ZSample]  BY <1>1, <2>2, <2>3
  <2>5. \A i \in 1 .. Len(s) : i >= n => i - n + 1 \in 1 .. k /\ n + (i - n + 1) - 1 = i
    BY <1>1, <1>4
  <2> HIDE DEF k, e
  <2>6. e \in Seq(ZSample) /\ Len(e) = k  BY <2>1, <2>4, FunIsSeq
  <2>7. \A i \in 1 .. Len(s) : i >= n => e[i - n + 1] = s[i]  BY <2>2, <2>5
  <2> QED  BY <2>6, <2>7 DEF k
<1> HIDE DEF e
<1>9. Expire(s, t) = e  BY <1>7 DEF e
<1> QED  BY <1>1, <1>4, <1>5, <1>6, <1>7, <1>8, <1>9
\* What is not of the ring may change.
LEMMA SameRing ==
    ASSUME NEW f, NEW cs, NEW start, RingInv(f, cs, start), NEW q \in Factor,
           q.buckets = f.buckets, q.head = f.head, q.count = f.count
    PROVE  /\ RingInv(q, cs, start) /\ HeadTs(q) = HeadTs(f)
           /\ \A side : ListScore(q, cs, start, side) = ListScore(f, cs, start, side)
<1>1. HeadTs(q) = HeadTs(f) /\ Live(q) = Live(f) /\ \A i : Bucket(q, i) = Bucket(f, i)
  BY DEF HeadTs, Live, Bucket
<1>2. Tiled(q) /\ Exact(q, cs) /\ Reaches(q, start)
  BY <1>1 DEF RingInv, Tiled, Exact, Reaches
<1>3. WindowOf(q, start) = WindowOf(f, start)  BY <1>1 DEF WindowOf
<1> QED  BY <1>1, <1>2, <1>3 DEF RingInv, ListScore

LEMMA LargerZ ==
    ASSUME NEW a \in ZValue, NEW b \in ZValue
    PROVE  ZMax(a, b) \in ZValue /\ ZMax(a, b) \in {a, b}
  BY DEF ZMax

LEMMA SampleType == ASSUME NEW f \in Factor PROVE Sample(f) \in ZSample /\ Sample(f).ts = HeadTs(f)
<1> DEFINE z == ZMax(f.z["Bid"], f.z["Offer"])
<1>1. f.z["Bid"] \in ZValue /\ f.z["Offer"] \in ZValue  BY DEF Factor, Side
<1>2. z \in ZValue  BY <1>1, LargerZ
<1>3. HeadTs(f) \in Nat  BY FactorFacts
<1> HIDE DEF z
<1>4. Sample(f) = [ts |-> HeadTs(f), z |-> z]  BY DEF Sample, z
<1> QED  BY <1>2, <1>3, <1>4 DEF ZSample

\* With two buckets the scores are those of the list, and the sample is remembered.
LEMMA Recompute ==
    ASSUME NEW f, NEW cs, NEW start, RingInv(f, cs, start), f.count > 0
    PROVE  LET q == recompute_zscores(f) IN
           /\ RingInv(q, cs, start) /\ q.count = f.count /\ HeadTs(q) = HeadTs(f)
           /\ f.count < 2 => q = f
           /\ f.count >= 2 =>
                /\ \A side \in Side : q.z[side] = ListScore(q, cs, start, side)
                /\ \A side \in Side : q.z[side].num <= (q.count - 1) * q.z[side].den
                /\ q.recent = Expire(Append(f.recent, Sample(q)), HeadTs(q))
<1> DEFINE w == InWindow(f)
           z == [side \in Side |-> Score(f, w, side)]
           g == [f EXCEPT !.z = z]
           s == Append(f.recent, Sample(g))
           r == Expire(s, HeadTs(g))
           q == recompute_zscores(f)
<1>1. f \in Factor /\ f.count \in Nat  BY FactorFacts DEF RingInv
<1>2. CASE f.count < 2
  <2>1. q = f  BY <1>2 DEF recompute_zscores
  <2> QED  BY <1>1, <1>2, <2>1
<1>3. CASE f.count >= 2
  <2>1. /\ 0 \in w /\ 1 \in w /\ IsFiniteSet(w) /\ Cardinality(w) \in Nat
        /\ Cardinality(w) <= f.count
    BY <1>3, WindowLive
  <2>2. Cardinality(w) >= 2  BY <2>1, TwoElements
  <2>3. q = [g EXCEPT !.recent = r]
    BY <1>1, <1>3, <2>1, <2>2 DEF recompute_zscores, Remember
  <2>4. \A side \in Side : Score(f, w, side) \in ZValue /\ Score(f, w, side) = ListScore(f, cs, start, side)
    BY ScoreBound, ScoreExact
  <2>5. \A side \in Side : Score(f, w, side).num <= (f.count - 1) * Score(f, w, side).den
    <3> SUFFICES ASSUME NEW side \in Side
                 PROVE  Score(f, w, side).num <= (f.count - 1) * Score(f, w, side).den
      OBVIOUS
    <3> DEFINE y == Score(f, w, side)
               a == Cardinality(w) - 1
               b == f.count - 1
    <3>1. y \in ZValue /\ y.num <= a * y.den  BY ScoreBound
    <3>2. y.den \in Nat /\ y.num \in Int  BY <3>1 DEF ZValue
    <3>3. a \in Nat /\ b \in Nat /\ a <= b  BY <1>1, <2>1, <2>2
    <3> HIDE DEF y, a, b
    <3>4. a * y.den <= b * y.den /\ a * y.den \in Int /\ b * y.den \in Int
      BY <3>2, <3>3, MoreTimes
    <3> QED  BY <3>1, <3>2, <3>4 DEF y, b
  <2>6. z \in [Side -> ZValue] /\ \A side \in Side : z[side] = Score(f, w, side)
    <3> HIDE DEF w
    <3> QED  BY <2>4
  <2> HIDE DEF z, w
  <2>7. /\ g \in Factor /\ g.z = z /\ g.buckets = f.buckets /\ g.head = f.head
        /\ g.count = f.count /\ g.recent = f.recent
    BY <1>1, <2>6 DEF Factor
  <2> HIDE DEF g
  <2>8. r \in Seq(ZSample)
    <3>1. f.recent \in Seq(ZSample)  BY <1>1 DEF Factor
    <3>2. Sample(g) \in ZSample /\ HeadTs(g) \in Nat  BY <2>7, SampleType, FactorFacts
    <3>3. s \in Seq(ZSample)  BY <3>1, <3>2
    <3> HIDE DEF s
    <3> QED  BY <3>2, <3>3, ExpireSuffix
  <2> HIDE DEF r, q
  <2>9. /\ q \in Factor /\ q.z = z /\ q.buckets = f.buckets /\ q.head = f.head
        /\ q.count = f.count /\ q.recent = r
    BY <2>3, <2>7, <2>8 DEF Factor
  <2>10. /\ RingInv(q, cs, start) /\ HeadTs(q) = HeadTs(f)
         /\ \A side : ListScore(q, cs, start, side) = ListScore(f, cs, start, side)
    BY <2>9, SameRing
  <2>11. HeadTs(g) = HeadTs(q) /\ Sample(g) = Sample(q)
    BY <2>7, <2>9 DEF HeadTs, Sample
  <2>12. q.recent = Expire(Append(f.recent, Sample(q)), HeadTs(q))  BY <2>9, <2>11 DEF r
  <2>13. \A side \in Side : q.z[side] = ListScore(q, cs, start, side)
    BY <2>4, <2>6, <2>9, <2>10
  <2>14. \A side \in Side : q.z[side].num <= (q.count - 1) * q.z[side].den
    BY <2>5, <2>6, <2>9
  <2>15. ~(f.count < 2)  BY <1>1, <1>3
  <2> QED  BY <2>9, <2>10, <2>12, <2>13, <2>14, <2>15 DEF q
<1> QED  BY <1>1, <1>2, <1>3

-----------------------------------------------------------------------------
(* The scores *)

ScoreInv ==
    /\ RingInv(factor, cancels, first)
    /\ factor.count >= 2 =>
          /\ \A side \in Side : factor.z[side] = ListScore(factor, cancels, first, side)
          /\ \A side \in Side : factor.z[side].num <= (factor.count - 1) * factor.z[side].den

LEMMA ScoreInit == Init => ScoreInv
<1> SUFFICES ASSUME Init PROVE ScoreInv  OBVIOUS
<1>1. factor = NewFactor /\ cancels = <<>> /\ first = 0  BY DEF Init, SignalInit
<1>2. Ring \in Nat \ {0} /\ 0 \in Slot  BY RingSize
<1>3. Fresh(0) \in CancelBucket /\ NoZ \in ZValue  BY DEF Fresh, CancelBucket, NoZ, ZValue
<1>4. factor \in Factor /\ factor.count = 0
  <2>1. <<>> \in Seq(ZSample)  OBVIOUS
  <2>2. 0 \in 0 .. Ring  BY <1>2
  <2> QED  BY <1>1, <1>2, <1>3, <2>1, <2>2 DEF NewFactor, Factor
<1>5. Live(factor) = {}  BY <1>4 DEF Live
<1>6. DOMAIN cancels = {} /\ cancels \in Seq(Cancel)  BY <1>1
<1> QED  BY <1>1, <1>4, <1>5, <1>6 DEF ScoreInv, RingInv, Tiled, Exact, Reaches

\* What one event does to the factor.
LEMMA EventFactor ==
    ASSUME SignalInv, ScoreInv, NEW g \in Gap, NEW r \in Records, NEW delta, Record(g, r, delta)
    PROVE  /\ ScoreInv' /\ factor'.count > 0 /\ factor'.count >= factor.count
           /\ factor.count > 0 => HeadTs(factor) <= HeadTs(factor')
           /\ HeadTs(factor') = HeadTs(advance_time(factor, now + g))
           /\ factor'.count < 2 => factor'.recent = factor.recent /\ factor'.z = factor.z
           /\ factor'.count >= 2 =>
                 factor'.recent = Expire(Append(factor.recent, Sample(factor')), HeadTs(factor'))
<1> DEFINE t == now + g
           cancel == r.cancel
           a == advance_time(factor, t)
           start == IF factor.count = 0 THEN t ELSE first
           b == CountCancel(a, cancel)
           cs == IF cancel = "None" THEN cancels
                 ELSE Append(cancels, [t |-> t, b |-> HeadTs(a), side |-> cancel])
           f == recompute_zscores(b)
<1>1. t \in Nat /\ cancel \in Side \cup {"None"}  BY BacktestAssumption DEF SignalInv
<1>2. RingInv(factor, cancels, first)  BY DEF ScoreInv
<1>3. /\ factor' = f /\ first' = start
      /\ cancels' = IF cancel = "None" THEN cancels
                    ELSE Append(cancels, [t |-> t, b |-> HeadTs(factor'), side |-> cancel])
  BY DEF Record, OnEvent, on_event
<1> HIDE DEF t, cancel
<1>4. /\ RingInv(a, cancels, start) /\ a.count > 0 /\ a.count >= factor.count
      /\ factor.count > 0 => HeadTs(factor) <= HeadTs(a)
      /\ a.z = factor.z /\ a.recent = factor.recent
  BY <1>1, <1>2, AdvanceRing
<1> HIDE DEF a, start
<1>5. /\ RingInv(b, cs, start) /\ b.count = a.count /\ HeadTs(b) = HeadTs(a)
      /\ b.z = a.z /\ b.recent = a.recent
  BY <1>1, <1>4, CountRing
<1> HIDE DEF b
<1>6. /\ RingInv(f, cs, start) /\ f.count = b.count /\ HeadTs(f) = HeadTs(b)
      /\ b.count < 2 => f = b
      /\ b.count >= 2 =>
            /\ \A side \in Side : f.z[side] = ListScore(f, cs, start, side)
            /\ \A side \in Side : f.z[side].num <= (f.count - 1) * f.z[side].den
            /\ f.recent = Expire(Append(b.recent, Sample(f)), HeadTs(f))
  BY <1>4, <1>5, Recompute
<1> HIDE DEF f
<1>7. cancels' = cs  BY <1>3, <1>5, <1>6
<1> HIDE DEF cs
<1>8. ScoreInv'  BY <1>3, <1>5, <1>6, <1>7 DEF ScoreInv
<1> QED  BY <1>3, <1>4, <1>5, <1>6, <1>8 DEF a, t

LEMMA ScoreStep == SettleInv /\ ScoreInv /\ [Next]_vars => ScoreInv'
<1> SUFFICES ASSUME SettleInv, ScoreInv, [Next]_vars PROVE ScoreInv'  OBVIOUS
<1>1. CASE Next
  <2>1. PICK g \in Gap, r \in Records, delta \in DeltaValue : Record(g, r, delta)
    BY <1>1 DEF Next
  <2> QED  BY <2>1, EventFactor DEF SettleInv
<1>2. CASE UNCHANGED vars
  BY <1>2 DEF vars, signalVars, ScoreInv
<1> QED  BY <1>1, <1>2

\* The list's score is the one TrueZ defines.
LEMMA ScoresTrue == ScoreInv => ZScoresExact
<1> SUFFICES ASSUME ScoreInv, factor.count >= 2, NEW side \in Side PROVE factor.z[side] = TrueZ(side)
  BY DEF ZScoresExact
<1>1. factor.z[side] = ListScore(factor, cancels, first, side)  BY DEF ScoreInv
<1>2. WindowOf(factor, first) = WindowBuckets  BY DEF WindowOf, WindowBuckets, Span
<1>3. \A i : CancelsIn(side, i) = Cardinality(Those(cancels, side, i, HeadTs(factor)))
  BY DEF CancelsIn, Those, Span
<1> DEFINE w == WindowBuckets
           n(i) == CancelsIn(side, i)
           c == [i \in w |-> n(i)]
<1>4. [i \in w |-> c[i] * c[i]] = [i \in w |-> n(i) * n(i)]  OBVIOUS
<1>5. TrueZ(side) = ZScore(Cardinality(w), n(0), SumFunctionOnSet(c, w),
                           SumFunctionOnSet([i \in w |-> n(i) * n(i)], w))
  BY DEF TrueZ
<1>6. ListScore(factor, cancels, first, side)
        = ZScore(Cardinality(w), n(0), SumFunctionOnSet(c, w),
                 SumFunctionOnSet([i \in w |-> c[i] * c[i]], w))
  BY <1>2, <1>3 DEF ListScore
<1> HIDE DEF w, n, c
<1> QED  BY <1>1, <1>4, <1>5, <1>6

\* Both scores are those of the cancellations in the window, whatever the ring and the
\* silences between events.
THEOREM ScoresAreExact == Spec => []ZScoresExact
<1>1. Init => SettleInv /\ ScoreInv  BY SettleInit, ScoreInit
<1>2. SettleInv /\ ScoreInv /\ [Next]_vars => (SettleInv /\ ScoreInv)'  BY SettleStep, ScoreStep
<1>3. SettleInv /\ ScoreInv => ZScoresExact  BY ScoresTrue
<1> QED  BY <1>1, <1>2, <1>3, PTL DEF Spec

-----------------------------------------------------------------------------
(* The window by the clock *)

\* A head behind the clock has left all earlier cancellations out of the window.
ClockInv ==
    LET h == HeadTs(factor) IN
    /\ factor.count > 0 => h <= now
    /\ \A k \in DOMAIN cancels :
          /\ cancels[k].b <= cancels[k].t /\ cancels[k].t <= now
          /\ \E m \in Nat : cancels[k].b + Span(m) = h
    /\ \/ now < h + BucketSize
       \/ \A k \in DOMAIN cancels : cancels[k].b >= cutoff(h) => cancels[k].t = now

\* A head moved by a whole ring leaves behind what was in the window.
LEMMA LeftBehind ==
    ASSUME NEW b \in Nat, NEW h \in Nat, b <= h
    PROVE  ~(b >= cutoff(h + Span(Ring)))
<1>1. PICK w \in Nat : Window = Span(w) /\ w + 1 <= Ring  BY WindowSpan
<1>2. Ring \in Nat /\ w < Ring  BY <1>1, RingSize
<1>3. Window + BucketSize <= Span(Ring) /\ Span(Ring) \in Nat /\ Window \in Nat
  BY <1>1, <1>2, SpanOrder, SpanNat
<1> QED  BY <1>3, CancelAssumption DEF cutoff

LEMMA EventClock ==
    ASSUME SignalInv, ScoreInv, ClockInv, NEW g \in Gap, NEW r \in Records, NEW delta,
           Record(g, r, delta)
    PROVE  ClockInv'
<1> DEFINE t == now + g
           h == HeadTs(factor)
           q == HeadTs(factor')
           e == [t |-> t, b |-> q, side |-> r.cancel]
<1>1. t \in Nat /\ now \in Nat /\ now <= t  BY BacktestAssumption DEF SignalInv
<1>2. now' = t /\ cancels' = IF r.cancel = "None" THEN cancels ELSE Append(cancels, e)
  BY DEF Record, OnEvent
<1>3. factor'.count > 0 /\ q = HeadTs(advance_time(factor, t))  BY EventFactor
<1>4. RingInv(factor, cancels, first)  BY DEF ScoreInv
<1>5. /\ h \in Nat /\ factor.count \in Nat /\ cancels \in Seq(Cancel)
      /\ \A k \in DOMAIN cancels : factor.count > 0 /\ cancels[k].b <= h
  BY <1>4, FactorFacts DEF RingInv
<1>6. /\ Len(cancels) \in Nat /\ DOMAIN cancels = 1 .. Len(cancels)
      /\ \A k \in DOMAIN cancels : cancels[k].b \in Nat /\ cancels[k].t \in Nat
  BY <1>5, CancelFacts
<1>7. factor.count > 0 => h <= t  BY <1>1, <1>5 DEF ClockInv
<1> HIDE DEF t
<1>8. /\ q \in Nat /\ q <= t
      /\ factor.count = 0 => q = t
      /\ factor.count > 0 => \E j \in Nat : q = h + Span(j) /\ (t < q + BucketSize \/ j = Ring)
  BY <1>1, <1>3, <1>4, <1>7, HeadClock
<1> HIDE DEF h, q
<1>9. e.t = t /\ e.b = q  OBVIOUS
<1> HIDE DEF e
<1>10. \A k \in DOMAIN cancels' :
          (k \in DOMAIN cancels /\ cancels'[k] = cancels[k]) \/ cancels'[k] = e
  BY <1>2, <1>5, <1>6
<1>11. ASSUME NEW k \in DOMAIN cancels
       PROVE  /\ cancels[k].b <= cancels[k].t /\ cancels[k].t <= t
              /\ \E m \in Nat : cancels[k].b + Span(m) = q
              /\ t < q + BucketSize \/ ~(cancels[k].b >= cutoff(q))
  <2> DEFINE c == cancels[k]
  <2>1. c.b \in Nat /\ c.t \in Nat /\ c.b <= h /\ factor.count > 0  BY <1>5, <1>6
  <2>2. c.b <= c.t /\ c.t <= now /\ \E m \in Nat : c.b + Span(m) = h  BY DEF ClockInv, h
  <2> HIDE DEF c
  <2>3. PICK m \in Nat : c.b + Span(m) = h  BY <2>2
  <2>4. PICK j \in Nat : q = h + Span(j) /\ (t < q + BucketSize \/ j = Ring)  BY <1>8, <2>1
  <2>5. Span(m + j) = Span(m) + Span(j) /\ Span(m) \in Nat /\ Span(j) \in Nat  BY SpanFacts
  <2>6. m + j \in Nat /\ c.b + Span(m + j) = q  BY <1>5, <2>1, <2>3, <2>4, <2>5
  <2>7. CASE t < q + BucketSize  BY <1>1, <2>1, <2>2, <2>6, <2>7 DEF c
  <2>8. CASE j = Ring
    <3>1. ~(c.b >= cutoff(q))  BY <1>5, <2>1, <2>4, <2>8, LeftBehind
    <3> QED  BY <1>1, <2>1, <2>2, <2>6, <3>1 DEF c
  <2> QED  BY <2>4, <2>7, <2>8
<1>12. q + Span(0) = q /\ 0 \in Nat  BY <1>8, SpanFacts
<1>13. \A k \in DOMAIN cancels' :
          /\ cancels'[k].b <= cancels'[k].t /\ cancels'[k].t <= t
          /\ \E m \in Nat : cancels'[k].b + Span(m) = q
  <2> SUFFICES ASSUME NEW k \in DOMAIN cancels'
               PROVE  /\ cancels'[k].b <= cancels'[k].t /\ cancels'[k].t <= t
                      /\ \E m \in Nat : cancels'[k].b + Span(m) = q
    OBVIOUS
  <2>1. CASE k \in DOMAIN cancels /\ cancels'[k] = cancels[k]  BY <1>11, <2>1
  <2>2. CASE cancels'[k] = e  BY <1>1, <1>8, <1>9, <1>12, <2>2
  <2> QED  BY <1>10, <2>1, <2>2
<1>14. \/ t < q + BucketSize
       \/ \A k \in DOMAIN cancels' : cancels'[k].b >= cutoff(q) => cancels'[k].t = t
  BY <1>9, <1>10, <1>11
<1> QED  BY <1>2, <1>8, <1>13, <1>14 DEF ClockInv, q

LEMMA ClockInit == Init => ClockInv
<1> SUFFICES ASSUME Init PROVE ClockInv  OBVIOUS
<1>1. factor.count = 0 /\ DOMAIN cancels = {}  BY DEF Init, SignalInit, NewFactor
<1> QED  BY <1>1 DEF ClockInv

LEMMA ClockStep == SettleInv /\ ScoreInv /\ ClockInv /\ [Next]_vars => ClockInv'
<1> SUFFICES ASSUME SettleInv, ScoreInv, ClockInv, [Next]_vars PROVE ClockInv'  OBVIOUS
<1>1. CASE Next
  <2>1. PICK g \in Gap, r \in Records, delta \in DeltaValue : Record(g, r, delta)
    BY <1>1 DEF Next
  <2> QED  BY <2>1, EventClock DEF SettleInv
<1>2. CASE UNCHANGED vars
  BY <1>2 DEF vars, signalVars, ClockInv
<1> QED  BY <1>1, <1>2

LEMMA ByTheClock == SettleInv /\ ScoreInv /\ ClockInv => WindowByTheClock
<1> SUFFICES ASSUME SettleInv, ScoreInv, ClockInv, NEW k \in DOMAIN cancels
             PROVE  LET c == cancels[k]
                        counted == c.b >= cutoff(HeadTs(factor))
                    IN /\ counted => now < c.t + Window + BucketSize
                       /\ c.t < c.b + BucketSize /\ now <= c.t + Window => counted
  BY DEF WindowByTheClock
<1> DEFINE c == cancels[k]
           h == HeadTs(factor)
<1>1. RingInv(factor, cancels, first) /\ now \in Nat  BY DEF ScoreInv, SettleInv, SignalInv
<1>2. h \in Nat /\ cancels \in Seq(Cancel) /\ factor.count > 0
  BY <1>1, FactorFacts DEF RingInv
<1>3. c.b \in Nat /\ c.t \in Nat  BY <1>2, CancelFacts
<1>4. /\ h <= now /\ c.b <= c.t /\ \E m \in Nat : c.b + Span(m) = h
      /\ now < h + BucketSize \/ (c.b >= cutoff(h) => c.t = now)
  BY <1>2 DEF ClockInv
<1> HIDE DEF c, h
<1>5. PICK m \in Nat : c.b + Span(m) = h  BY <1>4
<1>6. PICK w \in Nat : Window = Span(w)  BY WindowSpan
<1>7. /\ Span(m) \in Nat /\ Window \in Nat
      /\ w < m => Window + BucketSize <= Span(m)
      /\ m <= w => Span(m) <= Window
  BY <1>6, SpanNat, SpanOrder
<1>8. c.b >= cutoff(h) => now < c.t + Window + BucketSize
  BY <1>1, <1>2, <1>3, <1>4, <1>7, CancelAssumption DEF cutoff
<1>9. ASSUME c.t < c.b + BucketSize, now <= c.t + Window PROVE c.b >= cutoff(h)
  <2>1. CASE m <= w
    <3>1. Span(m) <= Window  BY <1>7, <2>1
    <3> QED  BY <1>2, <1>3, <1>5, <1>7, <3>1 DEF cutoff
  <2>2. CASE w < m
    <3>1. Window + BucketSize <= Span(m)  BY <1>7, <2>2
    <3> QED  BY <1>1, <1>2, <1>3, <1>4, <1>5, <1>7, <1>9, <3>1, CancelAssumption
  <2> QED  BY <2>1, <2>2
<1> QED  BY <1>8, <1>9 DEF c, h

\* Whatever the silences between events, no cancellation older than a window and a bucket
\* is counted, and none of the last window is left out but those put in behind the clock.
THEOREM WindowFollowsClock == Spec => []WindowByTheClock
<1>1. Init => SettleInv /\ ScoreInv /\ ClockInv  BY SettleInit, ScoreInit, ClockInit
<1>2. SettleInv /\ ScoreInv /\ ClockInv /\ [Next]_vars => (SettleInv /\ ScoreInv /\ ClockInv)'
  BY SettleStep, ScoreStep, ClockStep
<1> QED  BY <1>1, <1>2, ByTheClock, PTL DEF Spec

-----------------------------------------------------------------------------
(* The order of the scores, and the quantile *)

LEMMA ZParts ==
    ASSUME NEW a \in ZValue
    PROVE  a.num \in Int /\ a.den \in Nat \ {0}
  BY DEF ZValue

LEMMA ZOrder ==
    ASSUME NEW a \in ZValue, NEW b \in ZValue, NEW c \in ZValue
    PROVE  /\ ZLess(a, b) /\ ZLess(b, c) => ZLess(a, c)
           /\ ~ZLess(b, a) /\ ZLess(b, c) => ZLess(a, c)
           /\ ZLess(a, b) /\ ~ZLess(c, b) => ZLess(a, c)
           /\ ~ZLess(a, a)
<1>1. /\ a.num \in Int /\ b.num \in Int /\ c.num \in Int
      /\ a.den \in Nat \ {0} /\ b.den \in Nat \ {0} /\ c.den \in Nat \ {0}
  BY ZParts
<1>2. /\ a.num * b.den < b.num * a.den /\ b.num * c.den <= c.num * b.den => a.num * c.den < c.num * a.den
      /\ a.num * b.den <= b.num * a.den /\ b.num * c.den < c.num * b.den => a.num * c.den < c.num * a.den
  BY <1>1, FractionOrder
<1>3. /\ a.num * b.den \in Int /\ b.num * a.den \in Int /\ b.num * c.den \in Int
      /\ c.num * b.den \in Int /\ a.num * a.den \in Int
  BY <1>1, SMT
<1> QED  BY <1>2, <1>3 DEF ZLess

LEMMA ZLarger ==
    ASSUME NEW a \in ZValue, NEW b \in ZValue
    PROVE  ~ZLess(ZMax(a, b), a) /\ ~ZLess(ZMax(a, b), b)
<1>1. ~ZLess(a, a) /\ ~ZLess(b, b)  BY ZOrder
<1>2. CASE ZLess(a, b)
  <2>1. ZMax(a, b) = b  BY <1>2 DEF ZMax
  <2>2. ~ZLess(b, a)
    <3> SUFFICES ASSUME ZLess(b, a) PROVE FALSE  OBVIOUS
    <3>1. ZLess(a, a)  BY <1>2, ZOrder
    <3> QED  BY <1>1, <3>1
  <2> QED  BY <1>1, <2>1, <2>2
<1>3. CASE ~ZLess(a, b)
  <2>1. ZMax(a, b) = a  BY <1>3 DEF ZMax
  <2> QED  BY <1>1, <1>3, <2>1
<1> QED  BY <1>2, <1>3

\* A larger score than the larger of two is larger than either.
LEMMA AboveBoth ==
    ASSUME NEW a \in ZValue, NEW b \in ZValue, NEW z \in ZValue, ZLess(ZMax(a, b), z)
    PROVE  ZLess(a, z) /\ ZLess(b, z)
<1> DEFINE m == ZMax(a, b)
<1>1. m \in ZValue /\ ~ZLess(m, a) /\ ~ZLess(m, b)  BY LargerZ, ZLarger
<1> HIDE DEF m
<1> QED  BY <1>1, ZOrder DEF m

\* Some sample among those of I is not below another.
LEMMA Largest ==
    ASSUME NEW r \in Seq(ZSample), NEW I \in SUBSET DOMAIN r, I # {}
    PROVE  \E l \in I : \A i \in I : ~ZLess(r[l].z, r[i].z)
<1> DEFINE Above(l) == {i \in I : ZLess(r[l].z, r[i].z)}
           T == {Above(l) : l \in I}
<1>1. Len(r) \in Nat /\ DOMAIN r = 1 .. Len(r) /\ \A i \in 1 .. Len(r) : r[i] \in ZSample
  BY SeqElement
<1>2. \A i \in I : r[i].z \in ZValue  BY <1>1 DEF ZSample
<1>3. IsFiniteSet(I)
  <2>1. IsFiniteSet(DOMAIN r)  BY <1>1, FS_Interval
  <2> QED  BY <2>1, FS_Subset
<1>4. T \in SUBSET (SUBSET I) /\ T # {}  OBVIOUS
<1>5. PICK s \in T : \A t \in T : t \subseteq s => t = s
  <2> HIDE DEF T
  <2> QED  BY <1>3, <1>4, MinimalSubset
<1>6. PICK l \in I : s = Above(l)  OBVIOUS
<1>7. ASSUME NEW i \in I, ZLess(r[l].z, r[i].z) PROVE FALSE
  <2>1. i \in Above(l)  BY <1>7
  <2>2. i \notin Above(i)  BY <1>2, ZOrder
  <2>3. Above(i) \subseteq Above(l)
    <3> SUFFICES ASSUME NEW j \in I, ZLess(r[i].z, r[j].z) PROVE ZLess(r[l].z, r[j].z)  OBVIOUS
    <3> QED  BY <1>2, <1>7, ZOrder
  <2>4. Above(i) \in T  OBVIOUS
  <2> HIDE DEF Above, T
  <2> QED  BY <1>5, <1>6, <2>1, <2>2, <2>3, <2>4
<1> QED  BY <1>7

Below(r, x)  == {i \in DOMAIN r : ZLess(r[i].z, x)}
UpTo(r, x)   == {i \in DOMAIN r : ~ZLess(x, r[i].z)}
ScoresOf(r)  == {r[i].z : i \in DOMAIN r}

\* There is a sample at every place of the order.
LEMMA QuantileExists ==
    ASSUME NEW r \in Seq(ZSample), NEW idx \in Nat, idx < Len(r)
    PROVE  \E x \in ScoresOf(r) : Cardinality(Below(r, x)) <= idx /\ Cardinality(UpTo(r, x)) > idx
<1> DEFINE D == DOMAIN r
           B(j) == Below(r, r[j].z)
           U(j) == UpTo(r, r[j].z)
           T == {U(j) : j \in {k \in D : Cardinality(U(k)) > idx}}
<1>1. Len(r) \in Nat /\ D = 1 .. Len(r) /\ \A i \in 1 .. Len(r) : r[i] \in ZSample
  BY SeqElement
<1>2. \A i \in D : r[i].z \in ZValue  BY <1>1 DEF ZSample
<1>3. IsFiniteSet(D) /\ Cardinality(D) = Len(r)
  <2>1. IsFiniteSet(1 .. Len(r)) /\ Cardinality(1 .. Len(r)) = IF 1 > Len(r) THEN 0 ELSE Len(r) - 1 + 1
    BY <1>1, FS_Interval
  <2> QED  BY <1>1, <2>1
<1>4. ASSUME NEW j \in D
      PROVE  /\ B(j) \in SUBSET D /\ U(j) \in SUBSET D
             /\ Cardinality(B(j)) \in Nat /\ Cardinality(U(j)) \in Nat
  <2>1. B(j) \in SUBSET D /\ U(j) \in SUBSET D  BY DEF Below, UpTo
  <2> HIDE DEF B, U, D
  <2> QED  BY <1>3, <2>1, CardSplit
<1>5. T # {}
  <2>1. D # {}  BY <1>1
  <2>2. PICK l \in D : \A i \in D : ~ZLess(r[l].z, r[i].z)  BY <2>1, Largest
  <2>3. U(l) = D  BY <2>2 DEF UpTo
  <2>4. Cardinality(U(l)) > idx  BY <1>3, <2>3
  <2> QED  BY <2>4
<1>6. T \in SUBSET (SUBSET D)  BY <1>4
<1>7. PICK s \in T : \A t \in T : t \subseteq s => t = s
  <2> HIDE DEF T, D
  <2> QED  BY <1>3, <1>5, <1>6, MinimalSubset
<1>8. PICK j \in D : s = U(j) /\ Cardinality(U(j)) > idx  OBVIOUS
<1>9. Cardinality(B(j)) <= idx
  <2> SUFFICES ASSUME Cardinality(B(j)) > idx PROVE FALSE  BY <1>4
  <2>1. B(j) # {}
    <3>1. Cardinality({}) = 0  BY FS_EmptySet
    <3>2. ~(0 > idx)  OBVIOUS
    <3> HIDE DEF B
    <3> QED  BY <3>1, <3>2
  <2>2. PICK l \in B(j) : \A i \in B(j) : ~ZLess(r[l].z, r[i].z)
    <3>1. B(j) \in SUBSET D  BY <1>4
    <3> HIDE DEF B
    <3> QED  BY <2>1, <3>1, Largest
  <2>3. l \in D /\ ZLess(r[l].z, r[j].z)  BY DEF Below
  <2>4. U(l) = B(j)
    <3>1. ASSUME NEW i \in D, ~ZLess(r[l].z, r[i].z) PROVE ZLess(r[i].z, r[j].z)
      BY <1>2, <2>3, <3>1, ZOrder
    <3>2. \A i \in D : ZLess(r[i].z, r[j].z) => ~ZLess(r[l].z, r[i].z)  BY <2>2 DEF Below
    <3> QED  BY <3>1, <3>2 DEF UpTo, Below
  <2>5. U(l) \subseteq U(j)
    <3> SUFFICES ASSUME NEW i \in D, ZLess(r[i].z, r[j].z), ZLess(r[j].z, r[i].z) PROVE FALSE
      BY <2>4 DEF UpTo, Below
    <3>1. ZLess(r[i].z, r[i].z)  BY <1>2, ZOrder
    <3> QED  BY <1>2, <3>1, ZOrder
  <2>6. j \in U(j) /\ j \notin B(j)
    <3>1. ~ZLess(r[j].z, r[j].z)  BY <1>2, ZOrder
    <3> QED  BY <3>1 DEF UpTo, Below
  <2>7. U(l) \in T  BY <2>3, <2>4
  <2> HIDE DEF U, B, T
  <2> QED  BY <1>7, <1>8, <2>4, <2>5, <2>6, <2>7
<1>10. r[j].z \in ScoresOf(r)  BY DEF ScoresOf
<1> QED  BY <1>8, <1>9, <1>10

LEMMA QuantileRange ==
    ASSUME NEW n \in Nat \ {0}
    PROVE  /\ QuantileIndex(n) \in Nat /\ QuantileIndex(n) < n
           /\ Percentile * (n - 1) \in Nat /\ Percentile * (n - 1) < 100 * (QuantileIndex(n) + 1)
<1> DEFINE a == Percentile * (n - 1)
           d == a \div 100
           e == a % 100
<1>1. n - 1 \in Nat /\ Percentile \in Nat /\ Percentile <= 99  BY CancelAssumption
<1>2. a \in Nat  BY <1>1, SMT
<1>3. a <= 99 * (n - 1)  BY <1>1, MoreTimes
<1> HIDE DEF a, d, e
<1>4. d \in Nat /\ e \in 0 .. 99 /\ a = 100 * d + e
  <2>1. 100 \in Nat \ {0}  OBVIOUS
  <2> QED  BY <1>2, <2>1, DivMod DEF d, e
<1>5. d < n  BY <1>1, <1>2, <1>3, <1>4
<1>6. a < 100 * (d + 1)  BY <1>2, <1>4
<1> QED  BY <1>2, <1>4, <1>5, <1>6 DEF QuantileIndex, a, d

\* The threshold is exceeded by no more than a share of the samples.
LEMMA Threshold ==
    ASSUME NEW f \in Factor, f.recent # <<>>
    PROVE  LET x == dynamic_threshold(f)
               idx == QuantileIndex(Len(f.recent))
           IN /\ x \in ZValue /\ idx \in Nat
              /\ Cardinality(UpTo(f.recent, x)) > idx
<1> DEFINE r == f.recent
           idx == QuantileIndex(Len(r))
           x == dynamic_threshold(f)
<1>1. r \in Seq(ZSample)  BY DEF Factor
<1>2. Len(r) \in Nat \ {0}  BY <1>1
<1>3. idx \in Nat /\ idx < Len(r)  BY <1>2, QuantileRange
<1>4. x = CHOOSE y \in ScoresOf(r) :
               Cardinality(Below(r, y)) <= idx /\ Cardinality(UpTo(r, y)) > idx
  BY DEF dynamic_threshold, ScoresOf, Below, UpTo
<1> HIDE DEF idx, x, r
<1>5. \E y \in ScoresOf(r) : Cardinality(Below(r, y)) <= idx /\ Cardinality(UpTo(r, y)) > idx
  BY <1>1, <1>3, QuantileExists
<1>6. x \in ScoresOf(r) /\ Cardinality(UpTo(r, x)) > idx  BY <1>4, <1>5
<1>7. \A i \in DOMAIN r : r[i].z \in ZValue
  <2>1. \A i \in DOMAIN r : r[i] \in ZSample  BY <1>1, SeqElement
  <2> QED  BY <2>1 DEF ZSample
<1>8. x \in ZValue  BY <1>6, <1>7 DEF ScoresOf
<1> QED  BY <1>3, <1>6, <1>8 DEF r, idx, x
-----------------------------------------------------------------------------
(* The samples *)

\* r is what is left of s from place k on.
Suffix(r, s, k) ==
    /\ k \in 1 .. Len(s) + 1 /\ Len(r) = Len(s) - k + 1
    /\ \A i \in 1 .. Len(s) : i >= k => r[i - k + 1] = s[i]

\* The samples of the quantile's time span at time t are those from place k on.
Retains(s, k, t) == \A i \in DOMAIN s : s[i].ts >= q_cutoff(t) <=> i >= k

\* Samples are taken in the order of time.
InOrder(s, t) ==
    /\ \A i \in DOMAIN s : s[i].ts <= t
    /\ \A i, j \in DOMAIN s : i <= j => s[i].ts <= s[j].ts

\* A sample is appended and the old ones are dropped.
LEMMA SampleStep ==
    ASSUME NEW s \in Seq(ZSample), NEW r \in Seq(ZSample), NEW k, Suffix(r, s, k),
           NEW t0 \in Nat, NEW t \in Nat, s # <<>> => t0 <= t, NEW e \in ZSample, e.ts = t,
           InOrder(s, t0), Retains(s, k, t0)
    PROVE  /\ InOrder(Append(s, e), t)
           /\ \E n : Suffix(Expire(Append(r, e), t), Append(s, e), n) /\ Retains(Append(s, e), n, t)
<1> DEFINE L == Len(s)
           M == Len(r)
           p == Append(s, e)
           q == Append(r, e)
           x == Expire(q, t)
<1>1. /\ L \in Nat /\ DOMAIN s = 1 .. L /\ M \in Nat /\ DOMAIN r = 1 .. M
      /\ \A i \in 1 .. L : s[i] \in ZSample
  BY SeqElement
<1>2. /\ p \in Seq(ZSample) /\ Len(p) = L + 1 /\ p[L + 1] = e /\ \A i \in 1 .. L : p[i] = s[i]
      /\ DOMAIN p = 1 .. L + 1
  BY <1>1
<1>3. /\ q \in Seq(ZSample) /\ Len(q) = M + 1 /\ q[M + 1] = e /\ \A i \in 1 .. M : q[i] = r[i]
  BY <1>1
<1>4. /\ k \in 1 .. L + 1 /\ M = L - k + 1
      /\ \A i \in 1 .. L : i >= k => r[i - k + 1] = s[i]
  BY DEF Suffix
<1>5. \A i \in 1 .. L : s[i].ts \in Nat  BY <1>1 DEF ZSample
<1> HIDE DEF p, q, L, M
<1>0. L \in Nat /\ M \in Nat /\ k \in 1 .. L + 1 /\ M = L - k + 1  BY <1>1, <1>4
<1>6. \A i \in 1 .. L : s[i].ts <= t /\ t0 <= t
  <2> SUFFICES ASSUME NEW i \in 1 .. L PROVE s[i].ts <= t /\ t0 <= t  OBVIOUS
  <2>1. s # <<>>  BY <1>1 DEF L
  <2> QED  BY <1>1, <1>5, <2>1 DEF InOrder
<1>7. \A i \in 1 .. L + 1 : p[i].ts \in Nat /\ p[i].ts <= t
  <2> SUFFICES ASSUME NEW i \in 1 .. L + 1 PROVE p[i].ts \in Nat /\ p[i].ts <= t  OBVIOUS
  <2>1. CASE i = L + 1  BY <1>2, <2>1
  <2>2. CASE i \in 1 .. L  BY <1>2, <1>5, <1>6, <2>2
  <2> QED  BY <1>1, <2>1, <2>2
<1>8. InOrder(p, t)
  <2>1. ASSUME NEW i \in 1 .. L + 1, NEW j \in 1 .. L + 1, i <= j PROVE p[i].ts <= p[j].ts
    <3>1. CASE j = L + 1  BY <1>2, <1>7, <3>1
    <3>2. CASE j \in 1 .. L
      <4>1. i \in 1 .. L  BY <1>0, <2>1, <3>2
      <4>2. s[i].ts <= s[j].ts  BY <1>1, <2>1, <3>2, <4>1 DEF InOrder
      <4> QED  BY <1>2, <3>2, <4>1, <4>2
    <3> QED  BY <1>1, <3>1, <3>2
  <2> QED  BY <1>2, <1>7, <2>1 DEF InOrder
<1>9. PICK n \in 1 .. Len(q) + 1 :
          /\ Len(x) = Len(q) - n + 1
          /\ \A i \in 1 .. Len(q) : i >= n => x[i - n + 1] = q[i]
          /\ \A i \in 1 .. n - 1 : ~(q[i].ts >= q_cutoff(t))
          /\ n <= Len(q) => q[n].ts >= q_cutoff(t)
  BY <1>3, ExpireSuffix
<1>10. n \in 1 .. M + 2  BY <1>1, <1>3, <1>9
<1> DEFINE m == k + n - 1
<1>11. m \in 1 .. L + 2 /\ m >= k  BY <1>1, <1>4, <1>10
\* The sample at place i of the whole list is at place i - k + 1 of the retained ones.
<1>12. ASSUME NEW i \in 1 .. L + 1, i >= k
       PROVE  i - k + 1 \in 1 .. M + 1 /\ q[i - k + 1] = p[i]
  <2>1. i - k + 1 \in 1 .. M + 1  BY <1>0, <1>12
  <2>2. CASE i = L + 1
    <3>1. i - k + 1 = M + 1  BY <1>1, <1>4, <2>2
    <3> QED  BY <1>2, <1>3, <2>1, <2>2, <3>1
  <2>3. CASE i \in 1 .. L
    <3>1. i - k + 1 \in 1 .. M  BY <1>1, <1>4, <1>12, <2>3
    <3> QED  BY <1>2, <1>3, <1>4, <1>12, <2>1, <2>3, <3>1
  <2> QED  BY <1>1, <2>2, <2>3
<1>13. q_cutoff(t) \in Nat /\ q_cutoff(t0) \in Nat /\ (t0 <= t => q_cutoff(t0) <= q_cutoff(t))
  BY CancelAssumption DEF q_cutoff
<1> HIDE DEF x
<1>14. Suffix(x, p, m)
  <2>1. Len(x) = Len(p) - m + 1  BY <1>1, <1>2, <1>3, <1>4, <1>9, <1>10
  <2>2. ASSUME NEW i \in 1 .. Len(p), i >= m PROVE x[i - m + 1] = p[i]
    <3>1. i \in 1 .. L + 1 /\ i >= k  BY <1>1, <1>2, <1>4, <1>11, <2>2
    <3>2. i - k + 1 \in 1 .. Len(q) /\ q[i - k + 1] = p[i]  BY <1>3, <1>12, <3>1
    <3>3. i - k + 1 >= n /\ (i - k + 1) - n + 1 = i - m + 1  BY <1>4, <1>10, <2>2, <3>1
    <3>4. x[(i - k + 1) - n + 1] = q[i - k + 1]  BY <1>9, <3>2, <3>3
    <3> QED  BY <3>2, <3>3, <3>4
  <2>3. m \in 1 .. Len(p) + 1  BY <1>1, <1>2, <1>11
  <2> HIDE DEF m
  <2> QED  BY <2>1, <2>2, <2>3 DEF Suffix
<1>15. ASSUME NEW i \in 1 .. L + 1, i < m PROVE ~(p[i].ts >= q_cutoff(t))
  <2>1. CASE i >= k
    <3>1. i - k + 1 \in 1 .. M + 1 /\ q[i - k + 1] = p[i]  BY <1>12, <2>1
    <3>2. i - k + 1 \in 1 .. n - 1  BY <1>4, <1>10, <1>15, <3>1
    <3> QED  BY <1>9, <3>1, <3>2
  <2>2. CASE i < k
    <3>1. i \in 1 .. L  BY <1>1, <1>4, <2>2
    <3>2. ~(s[i].ts >= q_cutoff(t0))  BY <1>1, <1>4, <2>2, <3>1 DEF Retains
    <3>3. t0 <= t /\ s[i].ts \in Nat /\ p[i] = s[i]  BY <1>2, <1>5, <1>6, <3>1
    <3> QED  BY <1>13, <3>2, <3>3
  <2> QED  BY <1>4, <2>1, <2>2
<1>16. ASSUME NEW i \in 1 .. L + 1, i >= m PROVE p[i].ts >= q_cutoff(t)
  <2>1. m \in 1 .. L + 1  BY <1>1, <1>11, <1>16
  <2>2. m - k + 1 = n /\ m - k + 1 \in 1 .. M + 1 /\ q[m - k + 1] = p[m]
    <3>1. m - k + 1 \in 1 .. M + 1 /\ q[m - k + 1] = p[m]  BY <1>11, <1>12, <2>1
    <3> QED  BY <1>4, <1>10, <3>1
  <2>3. n <= Len(q) /\ q[n] = p[m]  BY <1>1, <1>3, <1>10, <2>2
  <2>4. p[m].ts >= q_cutoff(t)  BY <1>9, <2>3
  <2> HIDE DEF m
  <2>5. p[m].ts <= p[i].ts  BY <1>2, <1>8, <1>16, <2>1 DEF InOrder
  <2> QED  BY <1>7, <1>13, <2>1, <2>4, <2>5
<1>17. Retains(p, m, t)
  <2>1. \A i \in 1 .. L + 1 : i >= m \/ i < m  BY <1>11
  <2>2. \A i \in 1 .. L + 1 : ~(i >= m /\ i < m)  BY <1>11
  <2> HIDE DEF m
  <2> QED  BY <1>2, <1>15, <1>16, <2>1, <2>2 DEF Retains
<1> HIDE DEF m
<1> QED  BY <1>8, <1>14, <1>17 DEF p, q, x

SampleInv ==
    /\ samples \in Seq(ZSample) /\ InOrder(samples, HeadTs(factor))
    /\ \E k : Suffix(factor.recent, samples, k) /\ Retains(samples, k, HeadTs(factor))
    /\ factor.count < 2 => samples = <<>> /\ \A side \in Side : factor.z[side] = NoZ
    /\ factor.count >= 2 => samples # <<>> /\ samples[Len(samples)] = Sample(factor)

\* What the last event was found to say.
DecideInv ==
    /\ direction \in {"Buy", "Sell", "None"}
    /\ direction # "None" => ZLess(thresh_cancel(factor, MinCancelZ), SignalZ)
    /\ sf_fired => \E side \in Side : ZLess(thresh_cancel(factor, SfMinCancelZ), factor.z[side])

LEMMA DecideStep ==
    ASSUME NEW g, NEW r, NEW delta, Record(g, r, delta)
    PROVE  DecideInv'
<1>1. /\ direction' = Decide(factor', delta, MinCancelZ)
      /\ sf_fired' = (Decide(factor', delta, SfMinCancelZ) # "None")
  BY DEF Record, OnEvent
<1>2. ASSUME NEW m PROVE Decide(factor', delta, m) \in {"Buy", "Sell", "None"}  BY DEF Decide
<1>3. ASSUME NEW m, Decide(factor', delta, m) = "Buy"
      PROVE  ZLess(thresh_cancel(factor', m), factor'.z["Offer"])
  BY <1>3 DEF Decide
<1>4. ASSUME NEW m, Decide(factor', delta, m) = "Sell"
      PROVE  ZLess(thresh_cancel(factor', m), factor'.z["Bid"])
  BY <1>4 DEF Decide
<1>5. ASSUME sf_fired'
      PROVE  \E side \in Side : ZLess(thresh_cancel(factor', SfMinCancelZ), factor'.z[side])
  BY <1>1, <1>2, <1>3, <1>4, <1>5 DEF Side
<1>6. direction' # "None" => ZLess(thresh_cancel(factor', MinCancelZ), SignalZ')
  BY <1>1, <1>2, <1>3, <1>4 DEF SignalZ
<1> QED  BY <1>1, <1>2, <1>5, <1>6 DEF DecideInv

LEMMA EventSamples ==
    ASSUME SignalInv, ScoreInv, SampleInv, NEW g \in Gap, NEW r \in Records, NEW delta,
           Record(g, r, delta)
    PROVE  SampleInv'
<1> DEFINE f == factor
           q == factor'
           e == Sample(factor')
<1>1. /\ ScoreInv' /\ q.count > 0 /\ q.count >= f.count
      /\ f.count > 0 => HeadTs(f) <= HeadTs(q)
      /\ q.count < 2 => q.recent = f.recent /\ q.z = f.z
      /\ q.count >= 2 => q.recent = Expire(Append(f.recent, e), HeadTs(q))
  BY EventFactor
<1>2. f \in Factor /\ q \in Factor  BY <1>1 DEF ScoreInv, RingInv
<1>3. f.count \in Nat /\ q.count \in Nat /\ HeadTs(f) \in Nat /\ HeadTs(q) \in Nat
  BY <1>2, FactorFacts
<1>4. samples' = IF q.count < 2 THEN samples ELSE Append(samples, e)  BY DEF Record, OnEvent
<1>5. CASE q.count < 2
  <2>1. f.count < 2 /\ ~(q.count >= 2)  BY <1>1, <1>3, <1>5
  <2>2. samples = <<>> /\ samples' = <<>> /\ \A side \in Side : q.z[side] = NoZ
    BY <1>1, <1>4, <1>5, <2>1 DEF SampleInv
  <2>3. PICK k : Suffix(f.recent, samples, k)  BY DEF SampleInv
  <2>4. Suffix(q.recent, samples', k)  BY <1>1, <1>5, <2>2, <2>3
  <2>5. DOMAIN samples' = {} /\ samples' \in Seq(ZSample)  BY <2>2
  <2>6. Retains(samples', k, HeadTs(q)) /\ InOrder(samples', HeadTs(q))
    BY <2>5 DEF Retains, InOrder
  <2> QED  BY <2>1, <2>2, <2>4, <2>5, <2>6 DEF SampleInv
<1>6. CASE q.count >= 2
  <2>0. ~(q.count < 2)  BY <1>3, <1>6
  <2>1. e \in ZSample /\ e.ts = HeadTs(q)  BY <1>2, SampleType
  <2>2. samples \in Seq(ZSample) /\ f.recent \in Seq(ZSample)  BY <1>2 DEF SampleInv, Factor
  <2>3. samples # <<>> => HeadTs(f) <= HeadTs(q)
    <3>1. samples # <<>> => ~(f.count < 2)  BY DEF SampleInv
    <3> QED  BY <1>1, <1>3, <3>1
  <2>4. PICK k : Suffix(f.recent, samples, k) /\ Retains(samples, k, HeadTs(f))  BY DEF SampleInv
  <2>5. InOrder(samples, HeadTs(f))  BY DEF SampleInv
  <2> DEFINE p == Append(samples, e)
             x == Expire(Append(f.recent, e), HeadTs(q))
  <2>6. samples' = p /\ q.recent = x  BY <1>1, <1>4, <1>6, <2>0
  <2> HIDE DEF e
  <2>7. InOrder(p, HeadTs(q)) /\ \E n : Suffix(x, p, n) /\ Retains(p, n, HeadTs(q))
    BY <1>3, <2>1, <2>2, <2>3, <2>4, <2>5, SampleStep
  <2>8. p \in Seq(ZSample) /\ p # <<>> /\ p[Len(p)] = e  BY <2>1, <2>2
  <2> HIDE DEF p, x
  <2> QED  BY <2>0, <2>6, <2>7, <2>8 DEF SampleInv, e
<1> QED  BY <1>3, <1>5, <1>6

LEMMA SampleInit == Init => SampleInv /\ DecideInv
<1> SUFFICES ASSUME Init PROVE SampleInv /\ DecideInv  OBVIOUS
<1>1. factor = NewFactor /\ samples = <<>> /\ direction = "None" /\ sf_fired = FALSE
  BY DEF Init, SignalInit
<1>2. factor.count = 0 /\ factor.recent = <<>> /\ factor.z = [side \in Side |-> NoZ]
  BY <1>1 DEF NewFactor
<1>3. samples \in Seq(ZSample) /\ DOMAIN samples = {} /\ Len(samples) = 0  BY <1>1
<1>4. Suffix(factor.recent, samples, 1)  BY <1>1, <1>2, <1>3 DEF Suffix
<1>5. Retains(samples, 1, HeadTs(factor)) /\ InOrder(samples, HeadTs(factor))
  BY <1>3 DEF Retains, InOrder
<1>6. ~(factor.count >= 2) /\ \A side \in Side : factor.z[side] = NoZ  BY <1>2
<1> QED  BY <1>1, <1>3, <1>4, <1>5, <1>6 DEF SampleInv, DecideInv

\* The inductive invariant of the signals.
FactorInv == SettleInv /\ ScoreInv /\ SampleInv /\ DecideInv

LEMMA FactorInit == Init => FactorInv
  BY SettleInit, ScoreInit, SampleInit DEF FactorInv

LEMMA FactorStep == FactorInv /\ [Next]_vars => FactorInv'
<1> SUFFICES ASSUME FactorInv, [Next]_vars PROVE FactorInv'  OBVIOUS
<1>1. SettleInv' /\ ScoreInv'  BY SettleStep, ScoreStep DEF FactorInv
<1>2. CASE Next
  <2>1. PICK g \in Gap, r \in Records, delta \in DeltaValue : Record(g, r, delta)
    BY <1>2 DEF Next
  <2>2. SampleInv'  BY <2>1, EventSamples DEF FactorInv, SettleInv
  <2>3. DecideInv'  BY <2>1, DecideStep
  <2> QED  BY <1>1, <2>2, <2>3 DEF FactorInv
<1>3. CASE UNCHANGED vars
  <2>1. /\ factor' = factor /\ samples' = samples /\ direction' = direction
        /\ sf_fired' = sf_fired
    BY <1>3 DEF vars, signalVars
  <2>2. SampleInv'  BY <2>1 DEF FactorInv, SampleInv
  <2>3. DecideInv'  BY <2>1 DEF FactorInv, DecideInv, SignalZ
  <2> QED  BY <1>1, <2>2, <2>3 DEF FactorInv
<1> QED  BY <1>2, <1>3
-----------------------------------------------------------------------------
(* What a signal says *)

\* A score above an engine's threshold comes from two buckets or more, and is above both
\* parts of the threshold.
LEMMA Above ==
    ASSUME FactorInv, NEW m \in {MinCancelZ, SfMinCancelZ}, NEW side \in Side,
           ZLess(thresh_cancel(factor, m), factor.z[side])
    PROVE  LET z == factor.z[side] IN
           /\ m \in ZValue /\ factor \in Factor /\ factor.count \in Nat /\ factor.count >= 2
           /\ z \in ZValue /\ ZLess(m, z)
           /\ factor.recent # <<>> => ZLess(dynamic_threshold(factor), z)
           /\ z.num <= (factor.count - 1) * z.den
<1> DEFINE d == dynamic_threshold(factor)
           z == factor.z[side]
<1>1. factor \in Factor /\ factor.count \in Nat
  BY FactorFacts DEF FactorInv, ScoreInv, RingInv
<1>2. z \in ZValue  BY <1>1 DEF Factor
<1>3. m \in ZValue /\ m.num \in Nat /\ m.den \in Nat \ {0}
  BY SignalAssumption, BacktestAssumption DEF ZValue
<1>4. d \in ZValue
  <2>1. CASE factor.recent = <<>>
    <3>1. d = [num |-> 4, den |-> 1]  BY <2>1 DEF dynamic_threshold
    <3> QED  BY <3>1 DEF ZValue
  <2>2. CASE factor.recent # <<>>  BY <1>1, <2>2, Threshold
  <2> QED  BY <2>1, <2>2
<1>5. ZLess(ZMax(m, d), z)  BY DEF thresh_cancel
<1> HIDE DEF d, z
<1>6. ZLess(m, z) /\ ZLess(d, z)  BY <1>2, <1>3, <1>4, <1>5, AboveBoth
<1>7. factor.count >= 2
  <2> SUFFICES ASSUME factor.count < 2 PROVE FALSE  BY <1>1
  <2>1. z = NoZ  BY DEF FactorInv, SampleInv, z
  <2>2. m.num * 1 < 0 * m.den  BY <1>6, <2>1 DEF ZLess, NoZ
  <2> QED  BY <1>3, <2>2
<1>8. z.num <= (factor.count - 1) * z.den  BY <1>7 DEF FactorInv, ScoreInv, z
<1> QED  BY <1>1, <1>2, <1>3, <1>6, <1>7, <1>8 DEF d, z

LEMMA Signalled ==
    ASSUME FactorInv, direction # "None"
    PROVE  /\ factor \in Factor /\ factor.count \in Nat /\ factor.count >= 2
           /\ SignalZ \in ZValue /\ ZLess(MinCancelZ, SignalZ)
           /\ factor.recent # <<>> => ZLess(dynamic_threshold(factor), SignalZ)
<1>1. PICK side \in Side : SignalZ = factor.z[side]  BY DEF SignalZ, Side
<1>2. ZLess(thresh_cancel(factor, MinCancelZ), factor.z[side])
  BY <1>1 DEF FactorInv, DecideInv
<1> QED  BY <1>1, <1>2, Above

\* The samples that the threshold is taken from are the retained ones.
LEMMA RetainedOnes ==
    ASSUME FactorInv, factor.count >= 2
    PROVE  \E k \in 1 .. Len(samples) :
              /\ Len(samples) \in Nat /\ Retained = k .. Len(samples)
              /\ Len(factor.recent) = Len(samples) - k + 1
              /\ \A i \in Retained : factor.recent[i - k + 1] = samples[i]
              /\ \A i \in Retained : samples[i].z \in ZValue
<1> DEFINE L == Len(samples)
           h == HeadTs(factor)
<1>1. factor \in Factor  BY DEF FactorInv, ScoreInv, RingInv
<1>2. h \in Nat  BY <1>1, FactorFacts
<1>3. samples \in Seq(ZSample) /\ samples # <<>> /\ samples[L] = Sample(factor)
  BY DEF FactorInv, SampleInv
<1>4. /\ L \in Nat \ {0} /\ DOMAIN samples = 1 .. L
      /\ \A i \in 1 .. L : samples[i].z \in ZValue
  <2>1. L \in Nat /\ DOMAIN samples = 1 .. L /\ \A i \in 1 .. L : samples[i] \in ZSample
    BY <1>3, SeqElement
  <2>2. L # 0  BY <1>3
  <2> QED  BY <2>1, <2>2 DEF ZSample
<1>5. PICK k : Suffix(factor.recent, samples, k) /\ Retains(samples, k, h)
  BY DEF FactorInv, SampleInv
<1>6. /\ k \in 1 .. L + 1 /\ Len(factor.recent) = L - k + 1
      /\ \A i \in 1 .. L : i >= k => factor.recent[i - k + 1] = samples[i]
  BY <1>5 DEF Suffix
<1>7. samples[L].ts = h  BY <1>1, <1>3, SampleType
<1>8. \A i \in 1 .. L : samples[i].ts >= q_cutoff(h) <=> i >= k  BY <1>4, <1>5 DEF Retains
<1>9. h >= q_cutoff(h)  BY <1>2, CancelAssumption DEF q_cutoff
<1>10. L >= k
  <2>1. L \in 1 .. L  BY <1>4
  <2> HIDE DEF L, h
  <2> QED  BY <1>7, <1>8, <1>9, <2>1
<1>11. Retained = {i \in 1 .. L : i >= k}  BY <1>4, <1>8 DEF Retained
<1> HIDE DEF L
<1>12. Retained = k .. L  BY <1>4, <1>6, <1>11
<1>13. \A i \in Retained : i \in 1 .. L /\ i >= k  BY <1>11
<1>14. k \in 1 .. L  BY <1>4, <1>6, <1>10
<1> QED  BY <1>4, <1>6, <1>12, <1>13, <1>14 DEF L

LEMMA ExtremeSignals == FactorInv => SignalIsExtreme
<1> SUFFICES ASSUME FactorInv, direction # "None"
             PROVE  /\ ZLess(MinCancelZ, SignalZ)
                    /\ 100 * Cardinality({i \in Retained : ZLess(samples[i].z, SignalZ)})
                           > Percentile * (Cardinality(Retained) - 1)
  BY DEF SignalIsExtreme
<1> DEFINE z == SignalZ
           d == dynamic_threshold(factor)
           r == factor.recent
           idx == QuantileIndex(Len(r))
           V == UpTo(r, d)
           U == {i \in Retained : ~ZLess(d, samples[i].z)}
           A == {i \in Retained : ZLess(samples[i].z, z)}
<1>1. /\ factor \in Factor /\ factor.count \in Nat /\ factor.count >= 2
      /\ z \in ZValue /\ ZLess(MinCancelZ, z) /\ (r # <<>> => ZLess(d, z))
  BY Signalled
<1>2. PICK k \in 1 .. Len(samples) :
         /\ Len(samples) \in Nat /\ Retained = k .. Len(samples) /\ Len(r) = Len(samples) - k + 1
         /\ \A i \in Retained : r[i - k + 1] = samples[i]
         /\ \A i \in Retained : samples[i].z \in ZValue
  BY <1>1, RetainedOnes
<1>3. k \in Nat /\ k >= 1 /\ k <= Len(samples) /\ Len(r) \in Nat /\ Len(r) >= 1  BY <1>2
<1>4. r \in Seq(ZSample) /\ r # <<>>
  <2>1. r \in Seq(ZSample)  BY <1>1 DEF Factor
  <2>2. r = <<>> => Len(r) = 0  OBVIOUS
  <2> QED  BY <1>3, <2>1, <2>2
<1>5. DOMAIN r = 1 .. Len(r)  BY <1>4, SeqElement
<1>6. d \in ZValue /\ idx \in Nat /\ Cardinality(V) > idx  BY <1>1, <1>4, Threshold
<1>7. IsFiniteSet(Retained) /\ Cardinality(Retained) = Len(r)
  <2> DEFINE L == Len(samples)
  <2>1. L \in Nat /\ Retained = k .. L /\ Len(r) = L - k + 1 /\ k <= L  BY <1>2, <1>3
  <2> HIDE DEF L, r
  <2>2. IsFiniteSet(k .. L) /\ Cardinality(k .. L) = IF k > L THEN 0 ELSE L - k + 1
    BY <1>3, <2>1, FS_Interval
  <2> QED  BY <1>3, <2>1, <2>2
<1> HIDE DEF d, r, z
<1>8. U \subseteq A
  <2> SUFFICES ASSUME NEW i \in Retained, ~ZLess(d, samples[i].z) PROVE ZLess(samples[i].z, z)
    OBVIOUS
  <2> QED  BY <1>1, <1>2, <1>4, <1>6, ZOrder
<1>9. IsFiniteSet(U) /\ IsFiniteSet(A) /\ Cardinality(U) \in Nat /\ Cardinality(A) \in Nat
      /\ Cardinality(U) <= Cardinality(A)
  <2>1. U \in SUBSET Retained /\ A \in SUBSET Retained  OBVIOUS
  <2> HIDE DEF U, A
  <2>2. IsFiniteSet(U) /\ IsFiniteSet(A)  BY <1>7, <2>1, FS_Subset
  <2> QED  BY <1>8, <2>2, FS_Subset, FS_CardinalityType
<1>10. Cardinality(V) = Cardinality(U)
  <2> DEFINE f == [i \in U |-> i - k + 1]
  <2>1. \A i \in U : i \in Retained /\ i \in Int /\ i >= k /\ i <= Len(samples)  BY <1>2, <1>3
  <2>2. ASSUME NEW i \in U PROVE i - k + 1 \in V
    <3>1. i - k + 1 \in DOMAIN r  BY <1>2, <1>3, <1>5, <2>1
    <3>2. r[i - k + 1] = samples[i]  BY <1>2, <2>1
    <3> QED  BY <3>1, <3>2 DEF UpTo
  <2>3. f \in [U -> V]  BY <2>2
  <2>4. \A a, b \in U : f[a] = f[b] => a = b  BY <1>3, <2>1
  <2>5. ASSUME NEW j \in V PROVE \E i \in U : f[i] = j
    <3> DEFINE i == j + k - 1
    <3>1. j \in 1 .. Len(r) /\ ~ZLess(d, r[j].z)  BY <1>5 DEF UpTo
    <3>2. i \in k .. Len(samples) /\ i - k + 1 = j  BY <1>2, <1>3, <3>1
    <3> HIDE DEF i
    <3>3. i \in Retained /\ r[j] = samples[i]
      <4>1. i \in Retained  BY <1>2, <3>2
      <4> QED  BY <1>2, <3>2, <4>1
    <3>4. i \in U  BY <3>1, <3>3
    <3> QED  BY <3>2, <3>4
  <2> HIDE DEF f, U, V
  <2> QED  BY <1>9, <2>3, <2>4, <2>5, SameSize
<1>11. 100 * Cardinality(A) > Percentile * (Cardinality(Retained) - 1)
  <2>1. idx = QuantileIndex(Cardinality(Retained)) /\ Cardinality(Retained) \in Nat \ {0}
    BY <1>3, <1>7
  <2> HIDE DEF A, U, V, idx
  <2>2. /\ Percentile * (Cardinality(Retained) - 1) \in Nat
        /\ Percentile * (Cardinality(Retained) - 1) < 100 * (idx + 1)
    BY <2>1, QuantileRange
  <2> QED  BY <1>6, <1>9, <1>10, <2>2
<1> QED  BY <1>1, <1>11 DEF z

\* No score reaches a floor of sqrt(n) or more among n + 1 buckets.
LEMMA ReachedFloor ==
    ASSUME NEW z \in ZValue, NEW m \in ZValue, ZLess(m, z), NEW n \in Nat, z.num <= n * z.den
    PROVE  n * m.den > m.num
<1>1. /\ m.num \in Int /\ m.den \in Nat \ {0} /\ z.num \in Int /\ z.den \in Nat \ {0}
  BY ZParts
<1>2. m.num * z.den < z.num * m.den /\ z.num * 1 <= n * z.den  BY <1>1 DEF ZLess
<1> DEFINE a == m.num
           b == m.den
<1>3. a * 1 < n * b
  <2>1. 1 \in Nat \ {0} /\ n \in Int  OBVIOUS
  <2> HIDE DEF a, b
  <2> QED  BY <1>1, <1>2, <2>1, FractionOrder DEF a, b
<1>4. n * m.den \in Int  BY <1>1, SMT
<1> QED  BY <1>1, <1>3, <1>4

LEMMA ColdNone == FactorInv => NoSignalWhileCold
<1> SUFFICES ASSUME FactorInv
             PROVE  /\ direction # "None" => (factor.count - 1) * MinCancelZ.den > MinCancelZ.num
                    /\ sf_fired => (factor.count - 1) * SfMinCancelZ.den > SfMinCancelZ.num
  BY DEF NoSignalWhileCold
<1>1. ASSUME NEW m \in {MinCancelZ, SfMinCancelZ}, NEW side \in Side,
             ZLess(thresh_cancel(factor, m), factor.z[side])
      PROVE  (factor.count - 1) * m.den > m.num
  <2>1. /\ m \in ZValue /\ factor.count \in Nat /\ factor.count >= 2
        /\ factor.z[side] \in ZValue /\ ZLess(m, factor.z[side])
        /\ factor.z[side].num <= (factor.count - 1) * factor.z[side].den
    BY <1>1, Above
  <2>2. factor.count - 1 \in Nat  BY <2>1
  <2> QED  BY <2>1, <2>2, ReachedFloor
<1>2. direction # "None" => \E side \in Side : ZLess(thresh_cancel(factor, MinCancelZ), factor.z[side])
  BY DEF FactorInv, DecideInv, SignalZ, Side
<1>3. sf_fired => \E side \in Side : ZLess(thresh_cancel(factor, SfMinCancelZ), factor.z[side])
  BY DEF FactorInv, DecideInv
<1> QED  BY <1>1, <1>2, <1>3

\* A signal's score is above the floor and above more samples of the quantile's time span
\* than the percentile says, whatever the percentile and however many there are.
THEOREM SignalsAreExtreme == Spec => []SignalIsExtreme
  BY FactorInit, FactorStep, ExtremeSignals, PTL DEF Spec

\* Neither engine signals before there are buckets enough to exceed its floor.
THEOREM NoColdSignal == Spec => []NoSignalWhileCold
  BY FactorInit, FactorStep, ColdNone, PTL DEF Spec

\* A floor of sqrt(Ring - 1) or more, as 1e9 is for 200 buckets, keeps the single-factor
\* engine silent through every log, whatever the delta: it is not "delta only".
THEOREM SingleFactorIsSilent ==
    ASSUME SfMinCancelZ.num >= (Ring - 1) * SfMinCancelZ.den
    PROVE  Spec => []~sf_fired
<1>1. FactorInv => ~sf_fired
  <2> SUFFICES ASSUME FactorInv, sf_fired PROVE FALSE  OBVIOUS
  <2> DEFINE n == factor.count - 1
             m == Ring - 1
             a == SfMinCancelZ.num
             d == SfMinCancelZ.den
  <2>1. n * d > a  BY ColdNone DEF NoSignalWhileCold
  <2>2. PICK side \in Side : ZLess(thresh_cancel(factor, SfMinCancelZ), factor.z[side])
    BY DEF FactorInv, DecideInv
  <2>3. factor \in Factor /\ factor.count \in Nat /\ factor.count >= 2  BY <2>2, Above
  <2>4. factor.count <= Ring  BY <2>3, FactorFacts
  <2>5. n \in Nat /\ m \in Nat /\ n <= m /\ a \in Nat /\ d \in Nat
    BY <2>3, <2>4, RingSize, BacktestAssumption
  <2>6. a >= m * d  OBVIOUS
  <2> HIDE DEF n, m, a, d
  <2>7. n * d <= m * d  BY <2>5, MoreTimes
  <2>8. n * d \in Nat /\ m * d \in Nat  BY <2>5, SMT
  <2> QED  BY <2>1, <2>5, <2>6, <2>7, <2>8
<1> QED  BY FactorInit, FactorStep, <1>1, PTL DEF Spec
=============================================================================
