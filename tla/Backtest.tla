------------------------------- MODULE Backtest -------------------------------
(***************************************************************************)
(* sq_backtest (apps/backtest/main.cpp): each record of a log updates the  *)
(* book, settles the signals whose time has come and is fed to two signal  *)
(* engines, with and without a usable floor for the cancel factor.  Both   *)
(* are fed the same events, so one factor stands for both.                 *)
(*                                                                         *)
(* The book is represented by the best prices it is left with.  What is    *)
(* printed at the end is derived from result.                              *)
(***************************************************************************)
EXTENDS SignalEngine

CONSTANTS
    Records,       \* [cancel, bid, ask]: a Delete's side or "None", and the book after it
    Gap,           \* nanoseconds between two records
    MaxRecords,    \* bound on the records
    LookForward,   \* kLookForwardNs
    TickMove,      \* kPriceScale, one tick
    SfMinCancelZ   \* min_cancel_z_ of the single-factor engine

ASSUME BacktestAssumption ==
    /\ Gap \subseteq Nat /\ MaxRecords \in Nat
    /\ LookForward \in Nat \ {0} /\ TickMove \in Nat \ {0}
    /\ Records \subseteq [cancel : Side \cup {"None"}, bid : Nat, ask : Nat]
    /\ SfMinCancelZ \in [num : Nat, den : Nat \ {0}]

VARIABLES
    rec,             \* records read
    price_history,   \* [ts, bid, ask], when both sides are quoted
    pending,         \* [at, sig, sf_fired] of the signals not settled; at is the record
                     \* that raised it, and tells equal ones apart
    result,          \* the counters of BacktestResult
    sf_fired,        \* whether the single-factor engine signalled on the last record
    outcomes         \* history: [signal, verdict] of the settled signals

vars == <<signalVars, rec, price_history, pending, result, sf_fired, outcomes>>

Init ==
    /\ SignalInit
    /\ rec = 0 /\ price_history = <<>> /\ pending = {}
    /\ result = [total |-> 0, buy |-> 0, sell |-> 0, wins |-> 0, losses |-> 0,
                 sf_wins |-> 0, sf_total |-> 0, move |-> 0]
    /\ sf_fired = FALSE /\ outcomes = {}

-----------------------------------------------------------------------------
IsDue(p, t) == t - p.sig.ts >= LookForward

\* The place of the first price point at or after target, one past the last if none is.
lower_bound(points, target) ==
    Min({i \in DOMAIN points : points[i].ts >= target} \cup {Len(points) + 1})

Hit(p, points) == lower_bound(points, p.sig.ts + LookForward)

\* A bought signal is measured ask to ask, a sold one bid to bid.
Move(sig, x) == IF sig.dir = "Buy" THEN x.ask - sig.l1 ELSE sig.l1 - x.bid

\* The first price at or after the horizon decides; one that is not there yet, nothing.
Verdict(p, points) ==
    LET hit == Hit(p, points)
    IN IF hit > Len(points) THEN "none"
       ELSE IF Move(p.sig, points[hit]) >= TickMove THEN "win" ELSE "loss"

Judged(due, points) == {p \in due : Verdict(p, points) # "none"}

Won(due, points) == {p \in due : Verdict(p, points) = "win"}

\* Fault: a signal that finds no price is counted as a loss.
Evaluate_LostIsLoss(due, points) ==
    LET win == Won(due, points)
    IN [result EXCEPT !.wins = @ + Cardinality(win),
                      !.losses = @ + Cardinality(due \ win)]

\* What the signals in due make of result.  One that finds no price is neither a win
\* nor a loss.
Evaluate(due, points) ==
    LET judged == Judged(due, points)
        win == Won(due, points)
        sf == {p \in judged : p.sf_fired}
        moves == [p \in judged |-> Move(p.sig, points[Hit(p, points)])]
    IN [result EXCEPT !.move = @ + SumFunctionOnSet(moves, judged),
                      !.wins = @ + Cardinality(win),
                      !.losses = @ + Cardinality(judged \ win),
                      !.sf_total = @ + Cardinality(sf),
                      !.sf_wins = @ + Cardinality(sf \cap win)]

Quoted(r) == r.bid > 0 /\ r.ask > 0

PricePoint(t, r) == [ts |-> t, bid |-> r.bid, ask |-> r.ask]

Outcome(p, points) == [signal |-> p, verdict |-> Verdict(p, points)]

\* The body of the loop.
Record(g, r, delta) ==
    LET t == now + g
        points == IF Quoted(r) THEN Append(price_history, PricePoint(t, r)) ELSE price_history
        due == {p \in pending : IsDue(p, t)}
    IN /\ rec < MaxRecords
       /\ rec' = rec + 1
       /\ price_history' = points
       /\ OnEvent(t, r.cancel, delta, r.bid, r.ask)
       /\ sf_fired' = (Decide(factor', delta, SfMinCancelZ) # "None")
       /\ pending' = (pending \ due) \cup
                     (IF direction' = "None" THEN {}
                      ELSE {[at |-> rec', sig |-> last_signal', sf_fired |-> sf_fired']})
       /\ result' = [Evaluate(due, points) EXCEPT
                        !.total = @ + (IF direction' = "None" THEN 0 ELSE 1),
                        !.buy   = @ + (IF direction' = "Buy"  THEN 1 ELSE 0),
                        !.sell  = @ + (IF direction' = "Sell" THEN 1 ELSE 0)]
       /\ outcomes' = outcomes \cup {Outcome(p, points) : p \in due}

Next == \E g \in Gap, r \in Records, delta \in DeltaValue : Record(g, r, delta)

Spec == Init /\ [][Next]_vars

-----------------------------------------------------------------------------
\* The outcomes that found no price.
Dropped == {o \in outcomes : o.verdict = "none"}

\* Every signal is a win, a loss, still pending, or was dropped without a word for
\* want of a price: win_rate() divides by all of them, sf_win_rate() by judged ones.
TallyComplete ==
    /\ result.total = result.buy + result.sell
    /\ result.total = result.wins + result.losses
                      + Cardinality(pending) + Cardinality(Dropped)

\* The score of one bucket among n is at most sqrt(n - 1): neither engine signals before
\* there are buckets enough for its floor to be exceeded; and one whose floor is out of
\* reach of a whole ring, as that of sf_engine is, never does.
NoSignalWhileCold ==
    /\ direction # "None" => (factor.count - 1) * MinCancelZ.den > MinCancelZ.num
    /\ sf_fired => (factor.count - 1) * SfMinCancelZ.den > SfMinCancelZ.num

-----------------------------------------------------------------------------
(* A statement of the repository's own text that the code does not meet. *)

\* main.cpp, struct BacktestResult: "Win = price moved >= 1 tick in predicted direction
\* within 5 s": no signal counts as a loss when a price recorded after it and no later
\* than its horizon had moved a tick its way.
WinWithinHorizon ==
    \A o \in outcomes : o.verdict = "loss" =>
        LET sig == o.signal.sig IN
        \A i \in DOMAIN price_history :
            LET x == price_history[i] IN
            sig.ts < x.ts /\ x.ts <= sig.ts + LookForward => Move(sig, x) < TickMove
=============================================================================
