------------------------------ MODULE DeltaFactor ------------------------------
(***************************************************************************)
(* sq::DeltaFactor (src/alpha/delta_factor.cpp): the net traded volume of  *)
(* a sliding window, kept in a ring of time buckets, and its second        *)
(* difference.  SignalEngine::on_event feeds it every event, after setting *)
(* the midprice from the book.                                             *)
(*                                                                         *)
(* The factor keeps no list of trades.  trades is that list, each trade    *)
(* with the start of the bucket it was put in, for the properties to       *)
(* compare with.                                                           *)
(***************************************************************************)
EXTENDS Integers, Sequences, FiniteSetsExt

CONSTANTS
    Window,      \* window_ns_
    BucketSize,  \* bucket_ns_
    Ring,        \* kMaxBuckets
    Mid,         \* midprices the book can give
    TradePrice,  \* prices of trades
    Volume,      \* quantities of trades
    Gap,         \* nanoseconds between two events
    MaxTime,     \* bound on the timestamps
    MaxEvents    \* bound on the events fed

\* The default window of ten whole buckets fits the ring of 64.
ASSUME DeltaAssumption ==
    /\ BucketSize \in Nat \ {0} /\ Ring \in Nat \ {0}
    /\ Window \in Nat /\ Window % BucketSize = 0
    /\ Window <= (Ring - 1) * BucketSize
    /\ Mid \subseteq Nat /\ TradePrice \subseteq Nat /\ Volume \subseteq Nat
    /\ Gap \subseteq Nat
    /\ MaxTime \in Nat /\ MaxEvents \in Nat

VARIABLES
    buckets, head, count,     \* buckets_, head_, count_
    midprice,                 \* midprice_, 0 until the book has two sides
    net_delta, prev_delta, prev_prev_delta, acceleration,
    now,                      \* timestamp of the last event
    events,                   \* number of events fed
    trades                    \* history: [t, b, vol] of each trade since reset

deltas == <<net_delta, prev_delta, prev_prev_delta, acceleration>>
vars   == <<buckets, head, count, midprice, deltas, now, events, trades>>

Slot == 0 .. Ring - 1

Fresh(ts) == [ts |-> ts, buy |-> 0, sell |-> 0]

num_buckets == Min({(Window + BucketSize - 1) \div BucketSize + 1, Ring})

Init ==
    /\ buckets = [s \in Slot |-> Fresh(0)]
    /\ head = 0 /\ count = 0
    /\ midprice = 0
    /\ net_delta = 0 /\ prev_delta = 0 /\ prev_prev_delta = 0 /\ acceleration = 0
    /\ now \in Gap
    /\ events = 0 /\ trades = <<>>

-----------------------------------------------------------------------------
(* The ring, as a record of its three fields *)

\* The slot i places behind the head.
Behind(h, i) == (h + Ring - i) % Ring

\* Fault: the bucket an event falls into is started only when it is over.
to_add_Late(t) ==
    IF t < buckets[head].ts + BucketSize THEN 0
    ELSE Min({(t - buckets[head].ts) \div BucketSize - 1, num_buckets})

\* How many buckets to open for an event of time t.
to_add(t) ==
    IF t < buckets[head].ts + BucketSize THEN 0
    ELSE Min({(t - buckets[head].ts) \div BucketSize, num_buckets})

\* How many buckets after the head slot s is next used: 1 .. Ring.
Ahead(s) == ((s + Ring - head - 1) % Ring) + 1

\* Fault: a reopened bucket keeps the volumes of its last use.
Opened_Dirty(k) ==
    [s \in Slot |->
        LET i == Ahead(s) IN
        IF i <= k THEN [buckets[s] EXCEPT !.ts = buckets[head].ts + i * BucketSize]
                  ELSE buckets[s]]

\* The buckets after k new ones have been opened behind one another.
Opened(k) ==
    [s \in Slot |->
        LET i == Ahead(s) IN
        IF i <= k THEN Fresh(buckets[head].ts + i * BucketSize) ELSE buckets[s]]

advance_time(t) ==
    IF count = 0
    THEN [buckets |-> [buckets EXCEPT ![0] = Fresh(t)], head |-> 0, count |-> 1]
    ELSE [buckets |-> Opened(to_add(t)), head |-> (head + to_add(t)) % Ring,
          count |-> Min({count + to_add(t), Ring})]

\* Seller-initiated only below a known midprice.
IsBuy(price, mid) == mid <= 0 \/ price >= mid

\* The volume of a trade goes into the head bucket.
Add(r, price, qty, mid) ==
    IF IsBuy(price, mid)
    THEN [r EXCEPT !.buckets[r.head].buy = @ + qty]
    ELSE [r EXCEPT !.buckets[r.head].sell = @ + qty]

\* Fault: the window is measured from the end of the head bucket.
cutoff_FromEnd(ts) == IF ts + BucketSize >= Window THEN ts + BucketSize - Window ELSE 0

cutoff(ts) == IF ts >= Window THEN ts - Window ELSE 0

\* The loop of recompute walks back from the head and stops at the first bucket
\* that is too old.
Counted(r) ==
    {i \in 0 .. r.count - 1 : \A j \in 0 .. i :
        r.buckets[Behind(r.head, j)].ts >= cutoff(r.buckets[r.head].ts)}

NetVolume(b) == b.buy - b.sell

WindowSum(r) ==
    SumFunctionOnSet([i \in 0 .. r.count - 1 |-> NetVolume(r.buckets[Behind(r.head, i)])],
                     Counted(r))

\* recompute, over the ring as the event left it.
recompute(r) ==
    /\ net_delta' = WindowSum(r)
    /\ prev_delta' = net_delta
    /\ prev_prev_delta' = prev_delta
    /\ acceleration' = net_delta' - 2 * prev_delta' + prev_prev_delta'
    /\ buckets' = r.buckets /\ head' = r.head /\ count' = r.count

-----------------------------------------------------------------------------
(* Operations *)

\* set_midprice, when both sides of the book are quoted; otherwise the last one holds.
set_midprice == midprice' \in Mid \cup {midprice}

Feed(t) ==
    /\ events < MaxEvents /\ t <= MaxTime
    /\ events' = events + 1
    /\ now' = t
    /\ set_midprice

\* on_event for a trade
OnTrade(t, price, qty) ==
    /\ Feed(t)
    /\ LET r == advance_time(t) IN
       /\ recompute(Add(r, price, qty, midprice'))
       /\ trades' = Append(trades,
             [t |-> t, b |-> r.buckets[r.head].ts,
              vol |-> IF IsBuy(price, midprice') THEN qty ELSE -qty])

\* on_event for a bid or an offer: only time passes.
OnQuote(t) ==
    /\ Feed(t)
    /\ recompute(advance_time(t))
    /\ UNCHANGED trades

\* The midprice survives.
reset ==
    /\ count > 0
    /\ buckets' = [s \in Slot |-> Fresh(0)]
    /\ head' = 0 /\ count' = 0
    /\ net_delta' = 0 /\ prev_delta' = 0 /\ prev_prev_delta' = 0 /\ acceleration' = 0
    /\ trades' = <<>>
    /\ UNCHANGED <<midprice, now, events>>

\* Timestamps are TscClock::now_ns() at receipt, or a log of them.
Next ==
    \/ \E g \in Gap, price \in TradePrice, qty \in Volume : OnTrade(now + g, price, qty)
    \/ \E g \in Gap : OnQuote(now + g)
    \/ reset

Spec == Init /\ [][Next]_vars

-----------------------------------------------------------------------------
HeadTs == buckets[head].ts

\* The trades whose bucket is inside the window.
InWindow == {k \in DOMAIN trades : trades[k].b >= cutoff(HeadTs)}

\* recompute against the list of trades: reusing and dropping buckets neither loses
\* nor repeats nor resurrects the volume of a trade.
NetDeltaExact ==
    net_delta = SumFunctionOnSet([k \in DOMAIN trades |-> trades[k].vol], InWindow)

\* advance_time opens num_buckets_ at most, so after a long silence the head is still
\* behind the clock.
Lagging == count > 0 /\ now - HeadTs >= BucketSize

\* However far behind the ring has fallen, a trade older than the window (and the
\* bucket it began in) is never counted; and a ring that has caught up counts every
\* trade of the window that was put into its bucket in time.
WindowExact ==
    /\ \A k \in InWindow : now - trades[k].t < Window + BucketSize
    /\ ~Lagging =>
          \A k \in DOMAIN trades :
              (now - trades[k].t <= Window /\ trades[k].t - trades[k].b < BucketSize)
                  => k \in InWindow

\* advance_time: a silence of up to a window never makes the ring fall behind.
ShortSilenceHarmless ==
    [][ (~Lagging /\ now' - now <= Window) => ~Lagging' ]_vars
=============================================================================
